---- MODULE Spec2Model ----
(***************************************************************************)
(* Model of the language-learning content API (app/crud, app/api/routes,   *)
(* app/schemas): the paginated list queries of nouns and verbs with their  *)
(* post-fetch translation filter, and the translation normalisation.       *)
(*                                                                         *)
(* Python strings are modelled as sequences of one-character strings, so   *)
(* that str.lower() and the substring test `a in b` are computed.  JSON    *)
(* values (the content of the JSON columns) are tagged records:            *)
(*   [t |-> "none"]              None                                      *)
(*   [t |-> "int",  n  |-> i]    a number                                  *)
(*   [t |-> "str",  s  |-> cs]   a string                                  *)
(*   [t |-> "list", xs |-> seq]  a list                                    *)
(*   [t |-> "dict", kv |-> f]    a mapping, f a function from keys         *)
(***************************************************************************)
EXTENDS Integers, Sequences, FiniteSets, Bags, TLC

VARIABLES nouns, verbs, resp, probe,
          users, noun_groups, verb_groups, noun_group_nouns, verb_group_verbs, clock,
          link_student_teacher, calls

vars == <<nouns, verbs, resp, probe,
          users, noun_groups, verb_groups, noun_group_nouns, verb_group_verbs, clock,
          link_student_teacher, calls>>

\* the users table, the student-teacher links and the requests in progress on them
accounts == <<users, link_student_teacher, calls>>

\* the tables of the groups and of their membership links
groups == <<noun_groups, verb_groups, noun_group_nouns, verb_group_verbs>>

----------------------------------------------------------------------------
(* Bounds of the model *)

MaxRows == 4

MaxPage == 3

MaxPerPage == 2

MaxBlocks == 2

MaxGroups == 2

MaxClock == 2

MaxUsers == 5

MaxLinks == 2

MaxCalls == 2

MaxId == 2

----------------------------------------------------------------------------
(* JSON values and Python strings *)

JNone == [t |-> "none"]

JInt(i) == [t |-> "int", n |-> i]

JStr(cs) == [t |-> "str", s |-> cs]

JList(seq) == [t |-> "list", xs |-> seq]

JDict(f) == [t |-> "dict", kv |-> f]

IsDict(v) == v.t = "dict"

IsList(v) == v.t = "list"

IsStr(v) == v.t = "str"

\* Python truthiness (`if x:` / `not x`) of a JSON value or optional parameter
Truthy(v) ==
    CASE v.t = "none" -> FALSE
      [] v.t = "int"  -> v.n # 0
      [] v.t = "str"  -> Len(v.s) > 0
      [] v.t = "list" -> Len(v.xs) > 0
      [] v.t = "dict" -> DOMAIN v.kv # {}

\* str.lower() on the letters used by the model
LowerChar(c) ==
    CASE c = "A" -> "a"
      [] c = "M" -> "m"
      [] c = "R" -> "r"
      [] OTHER   -> c

Lower(cs) == [i \in 1..Len(cs) |-> LowerChar(cs[i])]

\* Python `a in b` for two strings
IsSubstr(a, b) ==
    \E i \in 0..(Len(b) - Len(a)) : SubSeq(b, i + 1, i + Len(a)) = a

\* Python seq[start:end] with 0-based start and exclusive end
Slice(seq, start, end) ==
    SubSeq(seq, start + 1, IF end < Len(seq) THEN end ELSE Len(seq))

\* the string constants of the program and of the sample data
es == <<"e", "s">>

en == <<"e", "n">>

language == <<"l", "a", "n", "g", "u", "a", "g", "e">>

translation == <<"t", "r", "a", "n", "s", "l", "a", "t", "i", "o", "n">>

amar == <<"a", "m", "a", "r">>

AMAR == <<"A", "M", "A", "R">>

Amar == <<"A", "m", "a", "r">>

odiar == <<"o", "d", "i", "a", "r">>

love == <<"l", "o", "v", "e">>

\* a mapping with one key, and with two keys
D1(k, v) == JDict((k :> v))

D2(k1, v1, k2, v2) == JDict((k1 :> v1) @@ (k2 :> v2))

\* a list of words
Words(ws) == JList([i \in 1..Len(ws) |-> JStr(ws[i])])

----------------------------------------------------------------------------
(* crud/noun.py, crud/verb.py: the translation filter *)

_normalize_translations(translations) ==
    IF ~Truthy(translations) THEN <<>>
    ELSE IF IsDict(translations) THEN <<translations>>
    ELSE IF IsList(translations) THEN translations.xs
    ELSE <<>>

\* dict.get(key, default)
DictGet(d, key, default) == IF key \in DOMAIN d.kv THEN d.kv[key] ELSE default

\* AnyWordContains comparing without lower(): a case-sensitive filter
AnyWordContains_CaseSensitive(lang_translations, translation_text) ==
    \E i \in 1..Len(lang_translations.xs) :
        IsSubstr(translation_text, lang_translations.xs[i].s)

\* any(translation_text.lower() in t.lower() for t in lang_translations)
AnyWordContains(lang_translations, translation_text) ==
    \E i \in 1..Len(lang_translations.xs) :
        IsSubstr(Lower(translation_text), Lower(lang_translations.xs[i].s))

\* the body of the `for trans in normalized` loop: TRUE when it returns True
BlockMatches(trans, translation_lang, translation_text) ==
    /\ IsDict(trans)
    /\ LET lang_translations == DictGet(trans, translation_lang, JList(<<>>))
       IN  /\ IsList(lang_translations)
           /\ AnyWordContains(lang_translations, translation_text)

RECURSIVE MatchLoop(_, _, _, _)
MatchLoop(normalized, i, translation_lang, translation_text) ==
    IF i > Len(normalized) THEN FALSE
    ELSE IF BlockMatches(normalized[i], translation_lang, translation_text) THEN TRUE
    ELSE MatchLoop(normalized, i + 1, translation_lang, translation_text)

_matches_translation_filter(translations, translation_lang, translation_text) ==
    LET normalized == _normalize_translations(translations)
    IN  IF normalized = <<>> THEN FALSE
        ELSE MatchLoop(normalized, 1, translation_lang, translation_text)

----------------------------------------------------------------------------
(* The record store: the rows of the nouns and verbs tables, in the order   *)
(* the store returns them (no ORDER BY in the queries: insertion order).    *)
(* A noun row is [id, noun, gender, translations]; a verb row is            *)
(* [id, verb_pair_id, conjugation_type, translations]: the columns that    *)
(* crud/verb.py and schemas/verb.py read and write.  A statement with       *)
(* WHERE clauses, executed with .all(), is SelectSeq over the table.        *)
(* Noun.noun.contains(x) is LIKE '%x%', taken as case-sensitive substring.  *)

\* a WordForm, and the WordForm an editor writes for a word
WordForm(w, a, p) ==
    JDict((<<"word">> :> JStr(w)) @@ (<<"accent">> :> JStr(a)) @@ (<<"phonetics">> :> JStr(p)))

Form(w) == WordForm(w, w, <<"f">>)

\* a Declension (CaseForms of singular and plural) after model_dump
DeclensionOf(w) ==
    LET CaseForms == JDict([c \in { <<"nominative">>, <<"genitive">>, <<"dative">>,
                                    <<"accusative">>, <<"instrumental">>,
                                    <<"prepositional">> } |-> Form(w)])
    IN  JDict((<<"singular">> :> CaseForms) @@ (<<"plural">> :> CaseForms))

\* an ImperfectiveAspect and a PerfectiveAspect after model_dump(exclude_unset=True)
ImperfectiveOf(w) ==
    JDict((<<"infinitive">> :> JDict((<<"word">> :> Form(w))))
          @@ (<<"present_tense">> :>
                 JDict([k \in { <<"ya">>, <<"ty">>, <<"on_ona">>, <<"my">>, <<"vy">>,
                                <<"oni">> } |-> Form(w)]))
          @@ (<<"past_tense">> :>
                 JDict([k \in { <<"masculine">>, <<"feminine">>, <<"neuter">>,
                                <<"plural">> } |-> Form(w)])))

PerfectiveOf(w) ==
    JDict((<<"infinitive">> :> JDict((<<"word">> :> Form(w))))
          @@ (<<"future_simple">> :>
                 JDict([k \in { <<"ya">>, <<"ty">>, <<"on_ona">>, <<"my">>, <<"vy">>,
                                <<"oni">> } |-> Form(w)])))

\* payloads of POST /api/nouns (NounCreate after model_dump)
NounCreates ==
    { [noun |-> <<"d", "o">>, gender |-> <<"m">>,
       translations |-> JList(<<D1(es, Words(<<Amar>>))>>),
       declension |-> DeclensionOf(<<"d", "o">>)],
      [noun |-> <<"o", "d">>, gender |-> <<"f">>,
       translations |-> JList(<<D2(es, Words(<<odiar>>), en, Words(<<love>>))>>),
       declension |-> DeclensionOf(<<"o", "d">>)],
      [noun |-> <<"d">>, gender |-> <<"m">>,
       translations |-> JList(<<D1(en, Words(<<love>>)), D1(es, Words(<<odiar, amar>>))>>),
       declension |-> DeclensionOf(<<"d">>)],
      [noun |-> <<"k", "o">>, gender |-> <<"M">>,
       translations |-> JList(<<D1(es, Words(<<AMAR>>))>>),
       declension |-> DeclensionOf(<<"k", "o">>)],
      [noun |-> <<"o">>, gender |-> <<"f">>,
       translations |-> JList(<<>>),
       declension |-> DeclensionOf(<<"o">>)] }

\* payloads of POST /api/verbs (VerbCreate after model_dump)
VerbCreates ==
    { [verb_pair_id |-> <<"a", "b">>, conjugation_type |-> 1,
       translations |-> JList(<<D1(es, Words(<<amar>>))>>),
       imperfective |-> ImperfectiveOf(<<"a", "b">>),
       perfective |-> PerfectiveOf(<<"a", "b">>)],
      [verb_pair_id |-> <<"b">>, conjugation_type |-> 2,
       translations |-> JList(<<D1(en, Words(<<love>>))>>),
       imperfective |-> ImperfectiveOf(<<"b">>),
       perfective |-> JNone],
      [verb_pair_id |-> <<"a">>, conjugation_type |-> 1,
       translations |-> JList(<<D1(es, Words(<<Amar, odiar>>))>>),
       imperfective |-> ImperfectiveOf(<<"a">>),
       perfective |-> PerfectiveOf(<<"a">>)] }

\* NounWhere without the clause on the gender
NounWhere_NoGender(row, noun, gender) ==
    Truthy(noun) => IsSubstr(noun.s, row.noun)

\* the .where(...) clauses of get_nouns: Noun.noun.contains(noun), Noun.gender == gender.lower()
NounWhere(row, noun, gender) ==
    /\ Truthy(noun) => IsSubstr(noun.s, row.noun)
    /\ Truthy(gender) => row.gender = Lower(gender.s)

\* the .where(...) clauses of get_verbs
VerbWhere(row, verb_pair_id, conjugation_type) ==
    /\ Truthy(verb_pair_id) => IsSubstr(verb_pair_id.s, row.verb_pair_id)
    /\ Truthy(conjugation_type) => row.conjugation_type = conjugation_type.n

\* FilterPage keeping the in-page filtered subset as the page
FilterPage_InPage(rows, total_sql, page, per_page, translation_lang, translation_text) ==
    LET Match(row) == _matches_translation_filter(row.translations,
                                                  translation_lang.s, translation_text.s)
        offset == (page - 1) * per_page
        fetched == Slice(rows, offset, offset + per_page)
    IN  IF Truthy(translation_lang) /\ Truthy(translation_text)
        THEN LET filtered == SelectSeq(fetched, Match)
             IN  IF filtered # <<>>
                 THEN [items |-> filtered, total |-> Len(SelectSeq(rows, Match))]
                 ELSE [items |-> filtered, total |-> 0]
        ELSE [items |-> fetched, total |-> total_sql]

\* FilterPage doing the full re-fetch whatever the in-page filter found
FilterPage_AlwaysRefetch(rows, total_sql, page, per_page, translation_lang, translation_text) ==
    LET Match(row) == _matches_translation_filter(row.translations,
                                                  translation_lang.s, translation_text.s)
        offset == (page - 1) * per_page
        fetched == Slice(rows, offset, offset + per_page)
    IN  IF Truthy(translation_lang) /\ Truthy(translation_text)
        THEN LET filtered_all == SelectSeq(rows, Match)
             IN  [items |-> Slice(filtered_all, offset, offset + per_page),
                  total |-> Len(filtered_all)]
        ELSE [items |-> fetched, total |-> total_sql]

\* the part of get_nouns / get_verbs after the page fetch, the same in both:
\* `rows` is the result of the filtered statement without offset and limit
FilterPage(rows, total_sql, page, per_page, translation_lang, translation_text) ==
    LET Match(row) == _matches_translation_filter(row.translations,
                                                  translation_lang.s, translation_text.s)
        offset == (page - 1) * per_page
        fetched == Slice(rows, offset, offset + per_page)
    IN  IF Truthy(translation_lang) /\ Truthy(translation_text)
        THEN LET filtered == SelectSeq(fetched, Match)
             IN  IF filtered # <<>>
                 THEN LET filtered_all == SelectSeq(rows, Match)
                          start_idx == (page - 1) * per_page
                          end_idx == start_idx + per_page
                      IN  [items |-> Slice(filtered_all, start_idx, end_idx),
                           total |-> Len(filtered_all)]
                 ELSE [items |-> filtered, total |-> 0]
        ELSE [items |-> fetched, total |-> total_sql]

\* get_nouns counting after offset and limit were applied
get_nouns_CountPage(session, page, per_page, noun, gender, translation_lang, translation_text) ==
    LET Where(row) == NounWhere(row, noun, gender)
        offset == (page - 1) * per_page
        total == Len(Slice(SelectSeq(session, Where), offset, offset + per_page))
    IN  FilterPage(SelectSeq(session, Where), total, page, per_page,
                   translation_lang, translation_text)

get_nouns(session, page, per_page, noun, gender, translation_lang, translation_text) ==
    LET Where(row) == NounWhere(row, noun, gender)
        total == Len(SelectSeq(session, Where))
    IN  FilterPage(SelectSeq(session, Where), total, page, per_page,
                   translation_lang, translation_text)

get_verbs(session, page, per_page, verb_pair_id, conjugation_type, translation_lang, translation_text) ==
    LET Where(row) == VerbWhere(row, verb_pair_id, conjugation_type)
        total == Len(SelectSeq(session, Where))
    IN  FilterPage(SelectSeq(session, Where), total, page, per_page,
                   translation_lang, translation_text)

----------------------------------------------------------------------------
(* schemas/noun.py, schemas/verb.py: the response path *)

\* the translations step of normalize_noun_for_response / normalize_verb_for_response
ResponseTranslations(translations) ==
    IF IsDict(translations) THEN JList(<<translations>>)
    ELSE IF ~IsList(translations) THEN JList(<<>>)
    ELSE translations

\* a mapping with three keys
D3(k1, v1, k2, v2, k3, v3) == JDict((k1 :> v1) @@ (k2 :> v2) @@ (k3 :> v3))

\* the keys of the JSON columns declension, imperfective and perfective
k_word == <<"word">>

k_accent == <<"accent">>

k_phonetics == <<"phonetics">>

k_singular == <<"singular">>

k_plural == <<"plural">>

k_infinitive == <<"infinitive">>

k_present_tense == <<"present_tense">>

k_past_tense == <<"past_tense">>

k_future_simple == <<"future_simple">>

\* the list literals of the `for case in [...]` and `for key in [...]` loops
Cases ==
    { <<"nominative">>, <<"genitive">>, <<"dative">>, <<"accusative">>,
      <<"instrumental">>, <<"prepositional">> }

Persons == { <<"ya">>, <<"ty">>, <<"on_ona">>, <<"my">>, <<"vy">>, <<"oni">> }

PastForms == { <<"masculine">>, <<"feminine">>, <<"neuter">>, <<"plural">> }

\* `key in d`
Has(d, key) == key \in DOMAIN d.kv

\* d[key] = value
DictSet(d, key, value) ==
    JDict([k \in DOMAIN d.kv \cup {key} |-> IF k = key THEN value ELSE d.kv[k]])

\* the literal {"word": "", "accent": "", "phonetics": ""}
EmptyWordForm == D3(k_word, JStr(<<>>), k_accent, JStr(<<>>), k_phonetics, JStr(<<>>))

\* _normalize_word_form making the accent of a bare string empty
_normalize_word_form_NoAccent(value) ==
    IF IsStr(value) THEN D3(k_word, value, k_accent, JStr(<<>>), k_phonetics, JStr(<<>>))
    ELSE IF IsDict(value) THEN value
    ELSE EmptyWordForm

\* _normalize_word_form of schemas/noun.py and of schemas/verb.py (the same text)
_normalize_word_form(value) ==
    IF IsStr(value) THEN D3(k_word, value, k_accent, value, k_phonetics, JStr(<<>>))
    ELSE IF IsDict(value) THEN value
    ELSE EmptyWordForm

\* for key in keys: if key in forms: forms[key] = _normalize_word_form(forms[key])
NormalizeForms(forms, keys) ==
    JDict([k \in DOMAIN forms.kv |->
              IF k \in keys THEN _normalize_word_form(forms.kv[k]) ELSE forms.kv[k]])

\* if name in parent and isinstance(parent[name], dict): the loop over its keys
NormalizeGroup(parent, name, keys) ==
    IF Has(parent, name) /\ IsDict(parent.kv[name])
    THEN DictSet(parent, name, NormalizeForms(parent.kv[name], keys))
    ELSE parent

_normalize_noun_structure(data) ==
    IF IsDict(data.declension)
    THEN [data EXCEPT !.declension =
              NormalizeGroup(NormalizeGroup(data.declension, k_singular, Cases), k_plural, Cases)]
    ELSE data

\* "Ensure all required fields exist" of an infinitive whose word is a mapping
EnsureFields(word_form) ==
    LET w == IF Has(word_form, k_word) THEN word_form
             ELSE DictSet(word_form, k_word, JStr(<<>>))
        a == IF Has(w, k_accent) THEN w
             ELSE DictSet(w, k_accent, DictGet(w, k_word, JStr(<<>>)))
    IN  IF Has(a, k_phonetics) THEN a ELSE DictSet(a, k_phonetics, JStr(<<>>))

\* NormalizeInfinitive wrapping a string infinitive without normalising it
NormalizeInfinitive_KeepString(aspect) ==
    IF ~Has(aspect, k_infinitive) THEN aspect
    ELSE LET inf == aspect.kv[k_infinitive]
         IN  IF IsStr(inf) THEN DictSet(aspect, k_infinitive, D1(k_word, inf))
             ELSE IF ~IsDict(inf) THEN aspect
             ELSE IF ~Has(inf, k_word)
             THEN DictSet(aspect, k_infinitive, D1(k_word, EmptyWordForm))
             ELSE IF IsStr(inf.kv[k_word])
             THEN DictSet(aspect, k_infinitive,
                          DictSet(inf, k_word, _normalize_word_form(inf.kv[k_word])))
             ELSE aspect

\* the "Normalize infinitive" block of an aspect
NormalizeInfinitive(aspect) ==
    IF ~Has(aspect, k_infinitive) THEN aspect
    ELSE LET inf == aspect.kv[k_infinitive]
         IN  IF IsStr(inf)
             THEN DictSet(aspect, k_infinitive, D1(k_word, _normalize_word_form(inf)))
             ELSE IF ~IsDict(inf) THEN aspect
             ELSE IF ~Has(inf, k_word)
             THEN DictSet(aspect, k_infinitive, D1(k_word, EmptyWordForm))
             ELSE IF IsStr(inf.kv[k_word])
             THEN DictSet(aspect, k_infinitive,
                          DictSet(inf, k_word, _normalize_word_form(inf.kv[k_word])))
             ELSE IF IsDict(inf.kv[k_word])
             THEN DictSet(aspect, k_infinitive,
                          DictSet(inf, k_word, EnsureFields(inf.kv[k_word])))
             ELSE aspect

_normalize_verb_structure(data) ==
    LET imperfective ==
            IF IsDict(data.imperfective)
            THEN NormalizeGroup(
                     NormalizeGroup(NormalizeInfinitive(data.imperfective),
                                    k_present_tense, Persons),
                     k_past_tense, PastForms)
            ELSE data.imperfective
        perfective ==
            IF IsDict(data.perfective)
            THEN NormalizeGroup(NormalizeInfinitive(data.perfective),
                                k_future_simple, Persons)
            ELSE data.perfective
    IN  [data EXCEPT !.imperfective = imperfective, !.perfective = perfective]

normalize_noun_for_response(noun) ==
    _normalize_noun_structure(
        [noun EXCEPT !.translations = ResponseTranslations(noun.translations)])

normalize_verb_for_response(verb) ==
    _normalize_verb_structure(
        [verb EXCEPT !.translations = ResponseTranslations(verb.translations)])

----------------------------------------------------------------------------
(* api/routes/nouns.py, api/routes/verbs.py: the list endpoints *)

\* Ceil rounding down: total // per_page
Ceil_Floor(a, b) == a \div b

\* math.ceil(a / b) for a >= 0, b >= 1
Ceil(a, b) == IF a % b = 0 THEN a \div b ELSE (a \div b) + 1

TotalPages(total, per_page) == IF total > 0 THEN Ceil(total, per_page) ELSE 0

PaginatedResponse(items, total, page, per_page, total_pages) ==
    [items |-> items, total |-> total, page |-> page, per_page |-> per_page,
     total_pages |-> total_pages]

list_nouns(session, q) ==
    LET got == get_nouns(session, q.page, q.per_page, q.noun, q.gender,
                         q.translation_lang, q.translation_text)
        total_pages == TotalPages(got.total, q.per_page)
    IN  PaginatedResponse([i \in 1..Len(got.items) |-> normalize_noun_for_response(got.items[i])],
                          got.total, q.page, q.per_page, total_pages)

list_verbs(session, q) ==
    LET got == get_verbs(session, q.page, q.per_page, q.verb_pair_id, q.conjugation_type,
                         q.translation_lang, q.translation_text)
        total_pages == TotalPages(got.total, q.per_page)
    IN  PaginatedResponse([i \in 1..Len(got.items) |-> normalize_verb_for_response(got.items[i])],
                          got.total, q.page, q.per_page, total_pages)

\* the (translation_lang, translation_text) query parameters tried
TransFilters ==
    { <<JNone, JNone>>,
      <<JStr(es), JStr(<<>>)>>,
      <<JNone, JStr(<<"A", "M">>)>>,
      <<JStr(es), JStr(<<"A", "M">>)>>,
      <<JStr(en), JStr(<<"o">>)>> }

\* query strings of GET /api/nouns: page >= 1, 1 <= per_page <= 100
NounQueries ==
    { [page |-> p, per_page |-> pp, noun |-> n, gender |-> g,
       translation_lang |-> tf[1], translation_text |-> tf[2]] :
        p \in 1..MaxPage, pp \in 1..MaxPerPage,
        n \in {JNone, JStr(<<"o">>)}, g \in {JNone, JStr(<<"M">>)},
        tf \in TransFilters }

\* query strings of GET /api/verbs
VerbQueries ==
    { [page |-> p, per_page |-> pp, verb_pair_id |-> v, conjugation_type |-> c,
       translation_lang |-> tf[1], translation_text |-> tf[2]] :
        p \in 1..MaxPage, pp \in 1..MaxPerPage,
        v \in {JNone, JStr(<<"a">>)}, c \in {JNone, JInt(1)},
        tf \in TransFilters }

NoResp == [kind |-> "none"]

NoProbe == [phase |-> "none"]

----------------------------------------------------------------------------
(* Actions of the list specification.  Requests are served one at a time *)
(* (single-threaded request-per-call): `resp` holds the response of the   *)
(* request being answered, and the next request starts once it is sent.   *)

Idle == resp = NoResp

\* the rows of the roles table (scripts/seed.py) and Role.name of a role id
RoleName(id_rol) ==
    CASE id_rol = 1 -> "admin"
      [] id_rol = 2 -> "teacher"
      [] id_rol = 3 -> "student"
      [] OTHER      -> "none"

\* the rows of the users table: an admin, a student, a deactivated teacher
Registered ==
    { [id |-> 1, id_rol |-> 1, is_active |-> TRUE, username |-> "ana"],
      [id |-> 2, id_rol |-> 3, is_active |-> TRUE, username |-> "eva"],
      [id |-> 3, id_rol |-> 2, is_active |-> FALSE, username |-> "ivo"] }

\* User.teachers: the relationship declared with foreign_keys
\* LinkStudentTeacher.id_teacher, that is the link rows whose id_teacher is the user
teachers(user) ==
    SelectSeq(link_student_teacher, LAMBDA link : link.id_teacher = user.id)

\* the dependencies of the endpoints: the status they raise, 0 when they pass.
\* The caller is the users row of a valid token.
get_current_active_user(current_user) ==
    IF ~current_user.is_active THEN 403 ELSE 0

\* require_admin_or_teacher letting a user without role pass
require_admin_or_teacher_RoleOptional(current_user) ==
    IF get_current_active_user(current_user) # 0
    THEN get_current_active_user(current_user)
    ELSE IF RoleName(current_user.id_rol) \notin {"none", "admin", "teacher"} THEN 403
    ELSE 0

require_admin_or_teacher(current_user) ==
    IF get_current_active_user(current_user) # 0
    THEN get_current_active_user(current_user)
    ELSE IF RoleName(current_user.id_rol) = "none" THEN 403
    ELSE IF RoleName(current_user.id_rol) \notin {"admin", "teacher"} THEN 403
    ELSE 0

\* a response: the endpoint and its status code
Reply(kind, status) == [kind |-> kind, status |-> status]

\* the id an INTEGER PRIMARY KEY column gives the next row: the largest id + 1
NextId(table) ==
    IF table = <<>> THEN 1
    ELSE LET ids == {table[i].id : i \in 1..Len(table)}
         IN  (CHOOSE m \in ids : \A k \in ids : k <= m) + 1

\* session.get(Model, id): the set of the positions of the row (empty when None)
ById(table, id) == {i \in 1..Len(table) : table[i].id = id}

\* the table without the row of the id
Without(table, id) ==
    LET Keep(row) == row.id # id
    IN  SelectSeq(table, Keep)

\* create_noun: Noun(**data) with the default_factory timestamps
create_noun(noun_create) ==
    [id |-> NextId(nouns), noun |-> noun_create.noun, gender |-> noun_create.gender,
     translations |-> noun_create.translations, declension |-> noun_create.declension,
     created_at |-> clock, updated_at |-> clock]

\* POST /api/nouns: Noun.noun is unique, a duplicate fails at commit
create_noun_endpoint(current_user, noun_create) ==
    /\ Idle
    /\ Len(nouns) + Len(verbs) < MaxRows
    /\ NextId(nouns) <= MaxRows
    /\ IF require_admin_or_teacher(current_user) # 0
       THEN /\ resp' = Reply("create_noun", require_admin_or_teacher(current_user))
            /\ UNCHANGED nouns
       ELSE IF \E i \in 1..Len(nouns) : nouns[i].noun = noun_create.noun
       THEN /\ resp' = Reply("create_noun", 500)
            /\ UNCHANGED nouns
       ELSE /\ nouns' = Append(nouns, create_noun(noun_create))
            /\ resp' = Reply("create_noun", 201)
    /\ UNCHANGED <<verbs, probe, accounts, groups, clock>>

\* get_verb_by_pair_id: the positions of the rows with the pair id
get_verb_by_pair_id(verb_pair_id) ==
    {i \in 1..Len(verbs) : verbs[i].verb_pair_id = verb_pair_id}

\* create_verb: Verb(**data) with the default_factory timestamps
create_verb(verb_create) ==
    [id |-> NextId(verbs), verb_pair_id |-> verb_create.verb_pair_id,
     conjugation_type |-> verb_create.conjugation_type,
     translations |-> verb_create.translations,
     imperfective |-> verb_create.imperfective, perfective |-> verb_create.perfective,
     created_at |-> clock, updated_at |-> clock]

\* POST /api/verbs: an existing verb_pair_id is rejected with 400
create_verb_endpoint(current_user, verb_create) ==
    /\ Idle
    /\ Len(nouns) + Len(verbs) < MaxRows
    /\ NextId(verbs) <= MaxRows
    /\ IF require_admin_or_teacher(current_user) # 0
       THEN /\ resp' = Reply("create_verb", require_admin_or_teacher(current_user))
            /\ UNCHANGED verbs
       ELSE IF get_verb_by_pair_id(verb_create.verb_pair_id) # {}
       THEN /\ resp' = Reply("create_verb", 400)
            /\ UNCHANGED verbs
       ELSE /\ verbs' = Append(verbs, create_verb(verb_create))
            /\ resp' = Reply("create_verb", 201)
    /\ UNCHANGED <<nouns, probe, accounts, groups, clock>>

\* GET /api/nouns
ListNouns(q) ==
    /\ Idle
    /\ resp' = [kind |-> "nouns", q |-> q, body |-> list_nouns(nouns, q)]
    /\ UNCHANGED <<nouns, verbs, probe, accounts, groups, clock>>

\* GET /api/verbs
ListVerbs(q) ==
    /\ Idle
    /\ resp' = [kind |-> "verbs", q |-> q, body |-> list_verbs(verbs, q)]
    /\ UNCHANGED <<nouns, verbs, probe, accounts, groups, clock>>

\* the response of a list request has been sent to the caller
SendResponse ==
    /\ ~Idle
    /\ resp' = NoResp
    /\ UNCHANGED <<nouns, verbs, probe, accounts, groups, clock>>

\* the database after create_db_and_tables and the registration of the users
InitStore ==
    /\ nouns = <<>>
    /\ verbs = <<>>
    /\ users = Registered
    /\ noun_groups = <<>>
    /\ verb_groups = <<>>
    /\ noun_group_nouns = EmptyBag
    /\ verb_group_verbs = EmptyBag
    /\ clock = 0
    /\ link_student_teacher = <<>>
    /\ calls = <<>>

Init ==
    /\ InitStore
    /\ resp = NoResp
    /\ probe = NoProbe

Next ==
    \/ \E u \in users, c \in NounCreates : create_noun_endpoint(u, c)
    \/ \E u \in users, c \in VerbCreates : create_verb_endpoint(u, c)
    \/ \E q \in NounQueries : ListNouns(q)
    \/ \E q \in VerbQueries : ListVerbs(q)
    \/ SendResponse

Spec == Init /\ [][Next]_vars

----------------------------------------------------------------------------
(* api/routes/nouns.py, api/routes/verbs.py with crud/noun.py, crud/verb.py: *)
(* get, update and delete of one record.  An update payload is the mapping  *)
(* model_dump(exclude_unset=True) gives: a function from the fields the     *)
(* request set to their values.  `clock` is datetime.now(), a wall clock    *)
(* that does not run backwards.                                             *)

\* SetFields ignoring the payload
SetFields_Keep(row, update_data) == row

\* for field, value in update_data.items(): setattr(row, field, value)
SetFields(row, update_data) ==
    [field \in DOMAIN row |->
        IF field \in DOMAIN update_data THEN update_data[field] ELSE row[field]]

\* update_noun: the merged row with updated_at = datetime.now()
update_noun(noun, noun_update) ==
    [SetFields(noun, noun_update) EXCEPT !.updated_at = clock]

\* update_verb: the merged row with updated_at = datetime.now()
update_verb(verb, verb_update) ==
    [SetFields(verb, verb_update) EXCEPT !.updated_at = clock]

\* the table with the row at position i replaced
Replaced(table, i, row) == [table EXCEPT ![i] = row]

\* GET /api/nouns/{noun_id}
get_noun(noun_id) ==
    /\ Idle
    /\ resp' = Reply("get_noun", IF ById(nouns, noun_id) = {} THEN 404 ELSE 200)
    /\ UNCHANGED <<nouns, verbs, probe, accounts, groups, clock>>

\* PUT /api/nouns/{noun_id}: a name held by another noun fails at commit
update_noun_endpoint(current_user, noun_id, noun_update) ==
    /\ Idle
    /\ IF require_admin_or_teacher(current_user) # 0
       THEN /\ resp' = Reply("update_noun", require_admin_or_teacher(current_user))
            /\ UNCHANGED nouns
       ELSE IF ById(nouns, noun_id) = {}
       THEN /\ resp' = Reply("update_noun", 404)
            /\ UNCHANGED nouns
       ELSE LET i == CHOOSE k \in ById(nouns, noun_id) : TRUE
                updated_noun == update_noun(nouns[i], noun_update)
            IN  IF \E k \in 1..Len(nouns) : k # i /\ nouns[k].noun = updated_noun.noun
                THEN /\ resp' = Reply("update_noun", 500)
                     /\ UNCHANGED nouns
                ELSE /\ nouns' = Replaced(nouns, i, updated_noun)
                     /\ resp' = Reply("update_noun", 200)
    /\ UNCHANGED <<verbs, probe, accounts, groups, clock>>

\* the rows of a link table that do not reference the deleted row
Unlinked(links, column, id) ==
    [link \in {l \in BagToSet(links) : l[column] # id} |-> links[link]]

\* delete_noun keeping the rows of the link table
delete_noun_KeepLinks(noun_id) ==
    /\ nouns' = Without(nouns, noun_id)
    /\ UNCHANGED noun_group_nouns

\* delete_noun: session.delete(noun) deletes the row and, through the relationship
\* Noun.noun_groups (link_model=NounGroupNoun), its rows of the link table
delete_noun(noun_id) ==
    /\ nouns' = Without(nouns, noun_id)
    /\ noun_group_nouns' = Unlinked(noun_group_nouns, "id_noun", noun_id)

\* delete_noun_endpoint answering 204 when the noun is already gone
delete_noun_endpoint_Idempotent(current_user, noun_id) ==
    /\ Idle
    /\ IF require_admin_or_teacher(current_user) # 0
       THEN /\ resp' = Reply("delete_noun", require_admin_or_teacher(current_user))
            /\ UNCHANGED <<nouns, noun_group_nouns>>
       ELSE /\ delete_noun(noun_id)
            /\ resp' = Reply("delete_noun", 204)
    /\ UNCHANGED <<verbs, probe, accounts, noun_groups, verb_groups, verb_group_verbs, clock>>

\* DELETE /api/nouns/{noun_id}
delete_noun_endpoint(current_user, noun_id) ==
    /\ Idle
    /\ IF require_admin_or_teacher(current_user) # 0
       THEN /\ resp' = Reply("delete_noun", require_admin_or_teacher(current_user))
            /\ UNCHANGED <<nouns, noun_group_nouns>>
       ELSE IF ById(nouns, noun_id) = {}
       THEN /\ resp' = Reply("delete_noun", 404)
            /\ UNCHANGED <<nouns, noun_group_nouns>>
       ELSE /\ delete_noun(noun_id)
            /\ resp' = Reply("delete_noun", 204)
    /\ UNCHANGED <<verbs, probe, accounts, noun_groups, verb_groups, verb_group_verbs, clock>>

\* GET /api/verbs/{verb_id}
get_verb(verb_id) ==
    /\ Idle
    /\ resp' = Reply("get_verb", IF ById(verbs, verb_id) = {} THEN 404 ELSE 200)
    /\ UNCHANGED <<nouns, verbs, probe, accounts, groups, clock>>

\* if verb_update.verb_pair_id and verb_update.verb_pair_id != verb.verb_pair_id:
\*     existing = get_verb_by_pair_id(...); if existing: raise 400
PairIdConflict(verb, verb_update) ==
    /\ "verb_pair_id" \in DOMAIN verb_update
    /\ verb_update.verb_pair_id # <<>>
    /\ verb_update.verb_pair_id # verb.verb_pair_id
    /\ get_verb_by_pair_id(verb_update.verb_pair_id) # {}

\* PUT /api/verbs/{verb_id}
update_verb_endpoint(current_user, verb_id, verb_update) ==
    /\ Idle
    /\ IF require_admin_or_teacher(current_user) # 0
       THEN /\ resp' = Reply("update_verb", require_admin_or_teacher(current_user))
            /\ UNCHANGED verbs
       ELSE IF ById(verbs, verb_id) = {}
       THEN /\ resp' = Reply("update_verb", 404)
            /\ UNCHANGED verbs
       ELSE LET i == CHOOSE k \in ById(verbs, verb_id) : TRUE
            IN  IF PairIdConflict(verbs[i], verb_update)
                THEN /\ resp' = Reply("update_verb", 400)
                     /\ UNCHANGED verbs
                ELSE /\ verbs' = Replaced(verbs, i, update_verb(verbs[i], verb_update))
                     /\ resp' = Reply("update_verb", 200)
    /\ UNCHANGED <<nouns, probe, accounts, groups, clock>>

\* delete_verb: session.delete(verb) deletes the row and, through the relationship
\* Verb.verb_groups (link_model=VerbGroupVerb), its rows of the link table
delete_verb(verb_id) ==
    /\ verbs' = Without(verbs, verb_id)
    /\ verb_group_verbs' = Unlinked(verb_group_verbs, "id_verb", verb_id)

\* DELETE /api/verbs/{verb_id}
delete_verb_endpoint(current_user, verb_id) ==
    /\ Idle
    /\ IF require_admin_or_teacher(current_user) # 0
       THEN /\ resp' = Reply("delete_verb", require_admin_or_teacher(current_user))
            /\ UNCHANGED <<verbs, verb_group_verbs>>
       ELSE IF ById(verbs, verb_id) = {}
       THEN /\ resp' = Reply("delete_verb", 404)
            /\ UNCHANGED <<verbs, verb_group_verbs>>
       ELSE /\ delete_verb(verb_id)
            /\ resp' = Reply("delete_verb", 204)
    /\ UNCHANGED <<nouns, probe, accounts, noun_groups, verb_groups, noun_group_nouns, clock>>

----------------------------------------------------------------------------
(* api/routes/noun_groups.py with crud/noun.py: the noun groups of a user   *)
(* and their membership links.  A group row is [id, name_group, id_user,    *)
(* created_at, updated_at]; a link row is [id_group, id_noun, created_at],  *)
(* and a link table is the bag of its rows.                                 *)

\* create_noun_group: NounGroup(name_group=..., id_user=user_id)
create_noun_group(group_create, user_id) ==
    [id |-> NextId(noun_groups), name_group |-> group_create.name_group,
     id_user |-> user_id, created_at |-> clock, updated_at |-> clock]

\* POST /api/noun-groups
create_noun_group_endpoint(current_user, group_create) ==
    /\ Idle
    /\ Len(noun_groups) + Len(verb_groups) < MaxGroups
    /\ NextId(noun_groups) <= MaxGroups
    /\ IF get_current_active_user(current_user) # 0
       THEN /\ resp' = Reply("create_noun_group", get_current_active_user(current_user))
            /\ UNCHANGED noun_groups
       ELSE /\ noun_groups' = Append(noun_groups,
                                     create_noun_group(group_create, current_user.id))
            /\ resp' = Reply("create_noun_group", 201)
    /\ UNCHANGED <<nouns, verbs, probe, accounts, verb_groups, noun_group_nouns,
                   verb_group_verbs, clock>>

\* GET /api/noun-groups/{group_id}: a student sees the groups they own and those
\* whose owner id is the id of one of current_user.teachers
get_noun_group(current_user, group_id) ==
    /\ Idle
    /\ resp' = Reply("get_noun_group",
           IF get_current_active_user(current_user) # 0
           THEN get_current_active_user(current_user)
           ELSE IF ById(noun_groups, group_id) = {} THEN 404
           ELSE LET group == noun_groups[CHOOSE k \in ById(noun_groups, group_id) : TRUE]
                IN  IF /\ RoleName(current_user.id_rol) = "student"
                       /\ group.id_user # current_user.id
                       /\ \A k \in 1..Len(teachers(current_user)) :
                              group.id_user # teachers(current_user)[k].id
                    THEN 403 ELSE 200)
    /\ UNCHANGED <<nouns, verbs, probe, accounts, groups, clock>>

\* update_noun_group setting updated_at to the time of creation
update_noun_group_Unstamped(group, group_update) ==
    [SetFields(group, group_update) EXCEPT !.updated_at = group.created_at]

\* update_noun_group: the merged row with updated_at = datetime.now()
update_noun_group(group, group_update) ==
    [SetFields(group, group_update) EXCEPT !.updated_at = clock]

\* PUT /api/noun-groups/{group_id}
update_noun_group_endpoint(current_user, group_id, group_update) ==
    /\ Idle
    /\ IF get_current_active_user(current_user) # 0
       THEN /\ resp' = Reply("update_noun_group", get_current_active_user(current_user))
            /\ UNCHANGED noun_groups
       ELSE IF ById(noun_groups, group_id) = {}
       THEN /\ resp' = Reply("update_noun_group", 404)
            /\ UNCHANGED noun_groups
       ELSE LET i == CHOOSE k \in ById(noun_groups, group_id) : TRUE
            IN  IF noun_groups[i].id_user # current_user.id
                THEN /\ resp' = Reply("update_noun_group", 403)
                     /\ UNCHANGED noun_groups
                ELSE /\ noun_groups' = Replaced(noun_groups, i,
                                            update_noun_group(noun_groups[i], group_update))
                     /\ resp' = Reply("update_noun_group", 200)
    /\ UNCHANGED <<nouns, verbs, probe, accounts, verb_groups, noun_group_nouns,
                   verb_group_verbs, clock>>

\* delete_noun_group: session.delete(group) deletes the row and, through the
\* relationship NounGroup.nouns (link_model=NounGroupNoun), its rows of the link table
delete_noun_group(group_id) ==
    /\ noun_groups' = Without(noun_groups, group_id)
    /\ noun_group_nouns' = Unlinked(noun_group_nouns, "id_group", group_id)

\* DELETE /api/noun-groups/{group_id}
delete_noun_group_endpoint(current_user, group_id) ==
    /\ Idle
    /\ IF get_current_active_user(current_user) # 0
       THEN /\ resp' = Reply("delete_noun_group", get_current_active_user(current_user))
            /\ UNCHANGED <<noun_groups, noun_group_nouns>>
       ELSE IF ById(noun_groups, group_id) = {}
       THEN /\ resp' = Reply("delete_noun_group", 404)
            /\ UNCHANGED <<noun_groups, noun_group_nouns>>
       ELSE IF noun_groups[CHOOSE k \in ById(noun_groups, group_id) : TRUE].id_user
                  # current_user.id
       THEN /\ resp' = Reply("delete_noun_group", 403)
            /\ UNCHANGED <<noun_groups, noun_group_nouns>>
       ELSE /\ delete_noun_group(group_id)
            /\ resp' = Reply("delete_noun_group", 204)
    /\ UNCHANGED <<nouns, verbs, probe, accounts, verb_groups, verb_group_verbs, clock>>

\* a link table without primary key
PrimaryKeyTaken_NoKey(links, column, group_id, entry_id) == FALSE

\* the composite primary key (id_group, id_noun) of a link table: TRUE when some
\* row holds the pair, and the INSERT of the pair fails at commit
PrimaryKeyTaken(links, column, group_id, entry_id) ==
    \E link \in BagToSet(links) : link.id_group = group_id /\ link[column] = entry_id

\* add_noun_to_group: NounGroupNoun(id_group=group_id, id_noun=noun_id)
add_noun_to_group(group_id, noun_id) ==
    noun_group_nouns (+) SetToBag({[id_group |-> group_id, id_noun |-> noun_id, created_at |-> clock]})

\* add_noun_to_group_endpoint without the lookup of the noun
add_noun_to_group_endpoint_NoLookup(current_user, group_id, noun_id) ==
    /\ Idle
    /\ IF get_current_active_user(current_user) # 0
       THEN /\ resp' = Reply("add_noun_to_group", get_current_active_user(current_user))
            /\ UNCHANGED noun_group_nouns
       ELSE IF ById(noun_groups, group_id) = {}
       THEN /\ resp' = Reply("add_noun_to_group", 404)
            /\ UNCHANGED noun_group_nouns
       ELSE IF PrimaryKeyTaken(noun_group_nouns, "id_noun", group_id, noun_id)
       THEN /\ resp' = Reply("add_noun_to_group", 500)
            /\ UNCHANGED noun_group_nouns
       ELSE /\ noun_group_nouns' = add_noun_to_group(group_id, noun_id)
            /\ resp' = Reply("add_noun_to_group", 201)
    /\ UNCHANGED <<nouns, verbs, probe, accounts, noun_groups, verb_groups,
                   verb_group_verbs, clock>>

\* POST /api/noun-groups/{group_id}/nouns/{noun_id}
add_noun_to_group_endpoint(current_user, group_id, noun_id) ==
    /\ Idle
    /\ IF get_current_active_user(current_user) # 0
       THEN /\ resp' = Reply("add_noun_to_group", get_current_active_user(current_user))
            /\ UNCHANGED noun_group_nouns
       ELSE IF ById(noun_groups, group_id) = {}
       THEN /\ resp' = Reply("add_noun_to_group", 404)
            /\ UNCHANGED noun_group_nouns
       ELSE IF noun_groups[CHOOSE k \in ById(noun_groups, group_id) : TRUE].id_user
                  # current_user.id
       THEN /\ resp' = Reply("add_noun_to_group", 403)
            /\ UNCHANGED noun_group_nouns
       ELSE IF ById(nouns, noun_id) = {}
       THEN /\ resp' = Reply("add_noun_to_group", 404)
            /\ UNCHANGED noun_group_nouns
       ELSE IF PrimaryKeyTaken(noun_group_nouns, "id_noun", group_id, noun_id)
       THEN /\ resp' = Reply("add_noun_to_group", 500)
            /\ UNCHANGED noun_group_nouns
       ELSE /\ noun_group_nouns' = add_noun_to_group(group_id, noun_id)
            /\ resp' = Reply("add_noun_to_group", 201)
    /\ UNCHANGED <<nouns, verbs, probe, accounts, noun_groups, verb_groups,
                   verb_group_verbs, clock>>

\* remove_noun_from_group: the first row of the pair is deleted, if there is one
remove_noun_from_group(group_id, noun_id) ==
    LET found == {link \in BagToSet(noun_group_nouns) :
                     link.id_group = group_id /\ link.id_noun = noun_id}
    IN  IF found = {} THEN noun_group_nouns
        ELSE noun_group_nouns (-) SetToBag({CHOOSE link \in found : TRUE})

\* DELETE /api/noun-groups/{group_id}/nouns/{noun_id}
remove_noun_from_group_endpoint(current_user, group_id, noun_id) ==
    /\ Idle
    /\ IF get_current_active_user(current_user) # 0
       THEN /\ resp' = Reply("remove_noun_from_group",
                             get_current_active_user(current_user))
            /\ UNCHANGED noun_group_nouns
       ELSE IF ById(noun_groups, group_id) = {}
       THEN /\ resp' = Reply("remove_noun_from_group", 404)
            /\ UNCHANGED noun_group_nouns
       ELSE IF noun_groups[CHOOSE k \in ById(noun_groups, group_id) : TRUE].id_user
                  # current_user.id
       THEN /\ resp' = Reply("remove_noun_from_group", 403)
            /\ UNCHANGED noun_group_nouns
       ELSE /\ noun_group_nouns' = remove_noun_from_group(group_id, noun_id)
            /\ resp' = Reply("remove_noun_from_group", 204)
    /\ UNCHANGED <<nouns, verbs, probe, accounts, noun_groups, verb_groups,
                   verb_group_verbs, clock>>

----------------------------------------------------------------------------
(* api/routes/verb_groups.py with crud/verb.py: the verb groups of a user   *)
(* and their membership links, as for the noun groups.                      *)

\* create_verb_group: VerbGroup(name_group=..., id_user=user_id)
create_verb_group(group_create, user_id) ==
    [id |-> NextId(verb_groups), name_group |-> group_create.name_group,
     id_user |-> user_id, created_at |-> clock, updated_at |-> clock]

\* POST /api/verb-groups
create_verb_group_endpoint(current_user, group_create) ==
    /\ Idle
    /\ Len(noun_groups) + Len(verb_groups) < MaxGroups
    /\ NextId(verb_groups) <= MaxGroups
    /\ IF get_current_active_user(current_user) # 0
       THEN /\ resp' = Reply("create_verb_group", get_current_active_user(current_user))
            /\ UNCHANGED verb_groups
       ELSE /\ verb_groups' = Append(verb_groups,
                                     create_verb_group(group_create, current_user.id))
            /\ resp' = Reply("create_verb_group", 201)
    /\ UNCHANGED <<nouns, verbs, probe, accounts, noun_groups, noun_group_nouns,
                   verb_group_verbs, clock>>

\* GET /api/verb-groups/{group_id}: a student sees the groups they own and those
\* whose owner id is the id of one of current_user.teachers
get_verb_group(current_user, group_id) ==
    /\ Idle
    /\ resp' = Reply("get_verb_group",
           IF get_current_active_user(current_user) # 0
           THEN get_current_active_user(current_user)
           ELSE IF ById(verb_groups, group_id) = {} THEN 404
           ELSE LET group == verb_groups[CHOOSE k \in ById(verb_groups, group_id) : TRUE]
                IN  IF /\ RoleName(current_user.id_rol) = "student"
                       /\ group.id_user # current_user.id
                       /\ \A k \in 1..Len(teachers(current_user)) :
                              group.id_user # teachers(current_user)[k].id
                    THEN 403 ELSE 200)
    /\ UNCHANGED <<nouns, verbs, probe, accounts, groups, clock>>

\* update_verb_group: the merged row with updated_at = datetime.now()
update_verb_group(group, group_update) ==
    [SetFields(group, group_update) EXCEPT !.updated_at = clock]

\* update_verb_group_endpoint without the comparison of group.id_user with the caller
update_verb_group_endpoint_AnyCaller(current_user, group_id, group_update) ==
    /\ Idle
    /\ IF get_current_active_user(current_user) # 0
       THEN /\ resp' = Reply("update_verb_group", get_current_active_user(current_user))
            /\ UNCHANGED verb_groups
       ELSE IF ById(verb_groups, group_id) = {}
       THEN /\ resp' = Reply("update_verb_group", 404)
            /\ UNCHANGED verb_groups
       ELSE LET i == CHOOSE k \in ById(verb_groups, group_id) : TRUE
            IN  /\ verb_groups' = Replaced(verb_groups, i,
                                       update_verb_group(verb_groups[i], group_update))
                /\ resp' = Reply("update_verb_group", 200)
    /\ UNCHANGED <<nouns, verbs, probe, accounts, noun_groups, noun_group_nouns,
                   verb_group_verbs, clock>>

\* PUT /api/verb-groups/{group_id}
update_verb_group_endpoint(current_user, group_id, group_update) ==
    /\ Idle
    /\ IF get_current_active_user(current_user) # 0
       THEN /\ resp' = Reply("update_verb_group", get_current_active_user(current_user))
            /\ UNCHANGED verb_groups
       ELSE IF ById(verb_groups, group_id) = {}
       THEN /\ resp' = Reply("update_verb_group", 404)
            /\ UNCHANGED verb_groups
       ELSE LET i == CHOOSE k \in ById(verb_groups, group_id) : TRUE
            IN  IF verb_groups[i].id_user # current_user.id
                THEN /\ resp' = Reply("update_verb_group", 403)
                     /\ UNCHANGED verb_groups
                ELSE /\ verb_groups' = Replaced(verb_groups, i,
                                            update_verb_group(verb_groups[i], group_update))
                     /\ resp' = Reply("update_verb_group", 200)
    /\ UNCHANGED <<nouns, verbs, probe, accounts, noun_groups, noun_group_nouns,
                   verb_group_verbs, clock>>

\* delete_verb_group: session.delete(group) deletes the row and, through the
\* relationship VerbGroup.verbs (link_model=VerbGroupVerb), its rows of the link table
delete_verb_group(group_id) ==
    /\ verb_groups' = Without(verb_groups, group_id)
    /\ verb_group_verbs' = Unlinked(verb_group_verbs, "id_group", group_id)

\* DELETE /api/verb-groups/{group_id}
delete_verb_group_endpoint(current_user, group_id) ==
    /\ Idle
    /\ IF get_current_active_user(current_user) # 0
       THEN /\ resp' = Reply("delete_verb_group", get_current_active_user(current_user))
            /\ UNCHANGED <<verb_groups, verb_group_verbs>>
       ELSE IF ById(verb_groups, group_id) = {}
       THEN /\ resp' = Reply("delete_verb_group", 404)
            /\ UNCHANGED <<verb_groups, verb_group_verbs>>
       ELSE IF verb_groups[CHOOSE k \in ById(verb_groups, group_id) : TRUE].id_user
                  # current_user.id
       THEN /\ resp' = Reply("delete_verb_group", 403)
            /\ UNCHANGED <<verb_groups, verb_group_verbs>>
       ELSE /\ delete_verb_group(group_id)
            /\ resp' = Reply("delete_verb_group", 204)
    /\ UNCHANGED <<nouns, verbs, probe, accounts, noun_groups, noun_group_nouns, clock>>

\* add_verb_to_group: VerbGroupVerb(id_group=group_id, id_verb=verb_id)
add_verb_to_group(group_id, verb_id) ==
    verb_group_verbs (+) SetToBag({[id_group |-> group_id, id_verb |-> verb_id, created_at |-> clock]})

\* POST /api/verb-groups/{group_id}/verbs/{verb_id}
add_verb_to_group_endpoint(current_user, group_id, verb_id) ==
    /\ Idle
    /\ IF get_current_active_user(current_user) # 0
       THEN /\ resp' = Reply("add_verb_to_group", get_current_active_user(current_user))
            /\ UNCHANGED verb_group_verbs
       ELSE IF ById(verb_groups, group_id) = {}
       THEN /\ resp' = Reply("add_verb_to_group", 404)
            /\ UNCHANGED verb_group_verbs
       ELSE IF verb_groups[CHOOSE k \in ById(verb_groups, group_id) : TRUE].id_user
                  # current_user.id
       THEN /\ resp' = Reply("add_verb_to_group", 403)
            /\ UNCHANGED verb_group_verbs
       ELSE IF ById(verbs, verb_id) = {}
       THEN /\ resp' = Reply("add_verb_to_group", 404)
            /\ UNCHANGED verb_group_verbs
       ELSE IF PrimaryKeyTaken(verb_group_verbs, "id_verb", group_id, verb_id)
       THEN /\ resp' = Reply("add_verb_to_group", 500)
            /\ UNCHANGED verb_group_verbs
       ELSE /\ verb_group_verbs' = add_verb_to_group(group_id, verb_id)
            /\ resp' = Reply("add_verb_to_group", 201)
    /\ UNCHANGED <<nouns, verbs, probe, accounts, noun_groups, verb_groups,
                   noun_group_nouns, clock>>

\* remove_verb_from_group: the first row of the pair is deleted, if there is one
remove_verb_from_group(group_id, verb_id) ==
    LET found == {link \in BagToSet(verb_group_verbs) :
                     link.id_group = group_id /\ link.id_verb = verb_id}
    IN  IF found = {} THEN verb_group_verbs
        ELSE verb_group_verbs (-) SetToBag({CHOOSE link \in found : TRUE})

\* DELETE /api/verb-groups/{group_id}/verbs/{verb_id}
remove_verb_from_group_endpoint(current_user, group_id, verb_id) ==
    /\ Idle
    /\ IF get_current_active_user(current_user) # 0
       THEN /\ resp' = Reply("remove_verb_from_group",
                             get_current_active_user(current_user))
            /\ UNCHANGED verb_group_verbs
       ELSE IF ById(verb_groups, group_id) = {}
       THEN /\ resp' = Reply("remove_verb_from_group", 404)
            /\ UNCHANGED verb_group_verbs
       ELSE IF verb_groups[CHOOSE k \in ById(verb_groups, group_id) : TRUE].id_user
                  # current_user.id
       THEN /\ resp' = Reply("remove_verb_from_group", 403)
            /\ UNCHANGED verb_group_verbs
       ELSE /\ verb_group_verbs' = remove_verb_from_group(group_id, verb_id)
            /\ resp' = Reply("remove_verb_from_group", 204)
    /\ UNCHANGED <<nouns, verbs, probe, accounts, noun_groups, verb_groups,
                   noun_group_nouns, clock>>

----------------------------------------------------------------------------
\* time passes between two requests
Tick ==
    /\ Idle
    /\ clock < MaxClock
    /\ clock' = clock + 1
    /\ UNCHANGED <<nouns, verbs, resp, probe, accounts, groups>>

----------------------------------------------------------------------------
(* The requests of the record specifications *)

\* payloads of POST /api/nouns and POST /api/verbs tried with the other requests
SomeNounCreates == {c \in NounCreates : c.noun \in {<<"d", "o">>, <<"o", "d">>}}

SomeVerbCreates == {c \in VerbCreates : c.verb_pair_id \in {<<"a">>, <<"b">>}}

OneNounCreate == {CHOOSE c \in SomeNounCreates : c.noun = <<"d", "o">>}

OneVerbCreate == {c \in VerbCreates : c.verb_pair_id = <<"a">>}

\* the payload of a request that sets no field
NoFields == <<>>

\* payloads of PUT /api/nouns/{noun_id} (NounUpdate after model_dump(exclude_unset=True))
NounUpdates ==
    { NoFields,
      [noun |-> <<"o", "d">>],
      [gender |-> <<"n">>, translations |-> JList(<<>>)] }

\* payloads of PUT /api/verbs/{verb_id} (VerbUpdate after model_dump(exclude_unset=True))
VerbUpdates ==
    { NoFields,
      [verb_pair_id |-> <<"b">>],
      [verb_pair_id |-> <<>>],
      [translations |-> JList(<<>>), perfective |-> JNone] }

\* payloads of POST and PUT /api/noun-groups, /api/verb-groups
GroupCreates == { [name_group |-> <<"A">>] }

GroupUpdates == { NoFields, [name_group |-> <<"B">>] }

\* path parameters: ids of rows and ids of no row
EntryIds == 1..(MaxId + 1)

GroupIds == 1..MaxGroups

----------------------------------------------------------------------------
(* The membership specification: records and groups are created and deleted, *)
(* records are added to and removed from groups.                             *)

\* the callers that create groups in this specification: the admins
Admins == {u \in users : RoleName(u.id_rol) = "admin"}

NextLinks ==
    \/ \E u \in users, c \in SomeNounCreates :
           NextId(nouns) <= MaxId /\ create_noun_endpoint(u, c)
    \/ \E u \in users, c \in OneVerbCreate :
           NextId(verbs) <= MaxId /\ create_verb_endpoint(u, c)
    \/ \E u \in users, id \in EntryIds : delete_noun_endpoint(u, id)
    \/ \E u \in users, id \in EntryIds : delete_verb_endpoint(u, id)
    \/ \E u \in Admins, c \in GroupCreates : create_noun_group_endpoint(u, c)
    \/ \E u \in Admins, c \in GroupCreates : create_verb_group_endpoint(u, c)
    \/ \E u \in users, g \in GroupIds : delete_noun_group_endpoint(u, g)
    \/ \E u \in users, g \in GroupIds : delete_verb_group_endpoint(u, g)
    \/ \E u \in users, g \in GroupIds, id \in EntryIds :
           add_noun_to_group_endpoint(u, g, id)
    \/ \E u \in users, g \in GroupIds, id \in EntryIds :
           add_verb_to_group_endpoint(u, g, id)
    \/ \E u \in users, g \in GroupIds, id \in EntryIds :
           remove_noun_from_group_endpoint(u, g, id)
    \/ \E u \in users, g \in GroupIds, id \in EntryIds :
           remove_verb_from_group_endpoint(u, g, id)
    \/ SendResponse

SpecLinks == Init /\ [][NextLinks]_vars

----------------------------------------------------------------------------
(* The record specification: nouns, verbs and groups are created, read,     *)
(* updated and deleted while time passes.  The handlers of one table do not *)
(* read the other tables, so records of one table at a time are held.       *)

\* the tables other than the given one hold no row
Only(table) ==
    \A other \in {"nouns", "verbs", "noun_groups", "verb_groups"} \ {table} :
        CASE other = "nouns"       -> nouns = <<>>
          [] other = "verbs"       -> verbs = <<>>
          [] other = "noun_groups" -> noun_groups = <<>>
          [] other = "verb_groups" -> verb_groups = <<>>

\* payloads of PUT /api/verbs/{verb_id} that keep the pair id
PlainVerbUpdates == {c \in VerbUpdates : "verb_pair_id" \notin DOMAIN c}

NextCrud ==
    \/ \E u \in users, c \in SomeNounCreates :
           Only("nouns") /\ NextId(nouns) <= MaxId /\ create_noun_endpoint(u, c)
    \/ \E u \in users, c \in SomeVerbCreates :
           Only("verbs") /\ NextId(verbs) <= MaxId /\ create_verb_endpoint(u, c)
    \/ \E id \in EntryIds : get_noun(id)
    \/ \E id \in EntryIds : get_verb(id)
    \/ \E u \in users, id \in EntryIds, c \in NounUpdates : update_noun_endpoint(u, id, c)
    \/ \E u \in users, id \in EntryIds, c \in PlainVerbUpdates :
           update_verb_endpoint(u, id, c)
    \/ \E u \in users, id \in EntryIds : delete_noun_endpoint(u, id)
    \/ \E u \in users, id \in EntryIds : delete_verb_endpoint(u, id)
    \/ \E u \in Admins, c \in GroupCreates :
           Only("noun_groups") /\ create_noun_group_endpoint(u, c)
    \/ \E u \in Admins, c \in GroupCreates :
           Only("verb_groups") /\ create_verb_group_endpoint(u, c)
    \/ \E u \in users, g \in GroupIds : get_noun_group(u, g)
    \/ \E u \in users, g \in GroupIds : get_verb_group(u, g)
    \/ \E u \in users, g \in GroupIds, c \in GroupUpdates :
           update_noun_group_endpoint(u, g, c)
    \/ \E u \in users, g \in GroupIds, c \in GroupUpdates :
           update_verb_group_endpoint(u, g, c)
    \/ \E u \in users, g \in GroupIds : delete_noun_group_endpoint(u, g)
    \/ \E u \in users, g \in GroupIds : delete_verb_group_endpoint(u, g)
    \/ Tick
    \/ SendResponse

SpecCrud == Init /\ [][NextCrud]_vars

----------------------------------------------------------------------------
(* The pair-id specification: verbs are created and updated. *)

\* payloads of POST /api/verbs
PairCreates == SomeVerbCreates

NextPairs ==
    \/ \E u \in users, c \in PairCreates :
           NextId(verbs) <= MaxId /\ create_verb_endpoint(u, c)
    \/ \E u \in users, id \in EntryIds, c \in VerbUpdates : update_verb_endpoint(u, id, c)
    \/ SendResponse

SpecPairs == Init /\ [][NextPairs]_vars

----------------------------------------------------------------------------
(* The normalisation specification: the translation filter and the two     *)
(* normalisers applied to one raw value of the JSON column.                *)

\* the legacy encoding {"language": L, "translation": T}
Legacy(L, T) == D2(language, JStr(L), translation, JStr(T))

\* the canonical block {L: [T]}
Canonical(L, T) == D1(L, Words(<<T>>))

\* elements of a stored translations list
Blocks ==
    { D1(es, Words(<<>>)), D1(es, Words(<<amar>>)), D1(es, Words(<<odiar, Amar>>)),
      D1(en, Words(<<love>>)), D2(es, Words(<<odiar>>), en, Words(<<amar>>)),
      D1(es, JStr(amar)), D1(es, JNone), JDict(<<>>),
      Legacy(es, amar), Legacy(en, love),
      JStr(amar), JNone }

RECURSIVE SeqsUpTo(_, _)
SeqsUpTo(S, n) ==
    IF n = 0 THEN {<<>>}
    ELSE LET shorter == SeqsUpTo(S, n - 1)
         IN  shorter \cup {Append(q, x) : q \in shorter, x \in S}

\* raw values of the translations column
RawTranslations ==
    {JNone, JInt(0), JInt(7), JStr(<<>>), JStr(amar)}
        \cup {b \in Blocks : IsDict(b)}
        \cup {JList(q) : q \in SeqsUpTo(Blocks, MaxBlocks)}

ProbeLangs == {es, en}

ProbeTexts == {<<"a", "m">>, <<"A", "M">>, <<"R">>, <<"o">>, <<"x">>, <<>>}

\* _matches_translation_filter applied to the probe
ApplyMatch ==
    /\ probe.phase = "input"
    /\ probe' = [probe EXCEPT !.phase = "matched",
                              !.matched = _matches_translation_filter(
                                              probe.translations, probe.lang, probe.text)]
    /\ UNCHANGED <<nouns, verbs, resp, accounts, groups, clock>>

\* _normalize_translations and normalize_noun_for_response / normalize_verb_for_response
\* applied to a row holding the probe
ApplyNormalize ==
    /\ probe.phase = "input"
    /\ LET noun == [id |-> 1, noun |-> <<"d">>, gender |-> <<"m">>,
                    translations |-> probe.translations,
                    declension |-> DeclensionOf(<<"d">>)]
           verb == [id |-> 1, verb_pair_id |-> <<"a">>, conjugation_type |-> 1,
                    translations |-> probe.translations,
                    imperfective |-> ImperfectiveOf(<<"a">>), perfective |-> JNone]
       IN  probe' = [probe EXCEPT !.phase = "normalized",
                         !.filter_norm = _normalize_translations(probe.translations),
                         !.noun_norm = normalize_noun_for_response(noun).translations,
                         !.verb_norm = normalize_verb_for_response(verb).translations]
    /\ UNCHANGED <<nouns, verbs, resp, accounts, groups, clock>>

InitNorm ==
    /\ InitStore
    /\ resp = NoResp
    /\ probe \in [phase : {"input"}, translations : RawTranslations,
                  lang : ProbeLangs, text : ProbeTexts,
                  matched : {FALSE}, filter_norm : {<<>>},
                  noun_norm : {JNone}, verb_norm : {JNone}]

NextNorm ==
    \/ ApplyMatch
    \/ ApplyNormalize

SpecNorm == InitNorm /\ [][NextNorm]_vars

----------------------------------------------------------------------------
(* The word-form specification: normalize_noun_for_response and            *)
(* normalize_verb_for_response applied, once and once more, to one raw row *)
(* of the nouns or verbs table.                                            *)

dom == <<"d", "o", "m">>

\* values found at the position of a word form
Leaves ==
    { JStr(dom), JStr(<<>>),
      WordForm(dom, <<"d", "o", "'", "m">>, <<"d", "o", "m">>),
      D1(k_word, JStr(dom)),
      D2(k_word, JStr(dom), k_phonetics, JStr(<<"d">>)),
      D2(k_word, JStr(dom), k_accent, JStr(<<"d", "o", "'", "m">>)),
      D1(k_accent, JStr(dom)),
      D1(<<"note">>, JStr(dom)),
      JNone, JInt(3) }

\* values found at the position of an infinitive
Infinitives ==
    Leaves \cup {D1(k_word, leaf) : leaf \in Leaves}
           \cup {D2(k_word, JStr(dom), <<"note">>, JInt(1)), JList(<<JStr(dom)>>)}

\* d with the value at d[outer][inner] replaced
DictSet2(d, outer, inner, value) == DictSet(d, outer, DictSet(d.kv[outer], inner, value))

\* raw values of the declension column
RawDeclensions ==
    {DeclensionOf(dom), JNone, JStr(dom), JDict(<<>>),
     DictSet(DeclensionOf(dom), k_singular, JStr(dom)),
     DictSet(DeclensionOf(dom), k_plural, JDict(<<>>)),
     DictSet(DeclensionOf(dom), <<"dual">>, D1(<<"nominative">>, JStr(dom))),
     DictSet2(DeclensionOf(dom), k_singular, <<"vocative">>, JStr(dom))}
        \cup {DictSet2(DeclensionOf(dom), number, case, leaf) :
                  number \in {k_singular, k_plural}, case \in Cases, leaf \in Leaves}

\* raw values of the imperfective column
RawImperfectives ==
    {ImperfectiveOf(dom), JNone, JStr(dom), JDict(<<>>),
     DictSet(ImperfectiveOf(dom), k_present_tense, JStr(dom)),
     DictSet2(ImperfectiveOf(dom), k_past_tense, <<"dual">>, JStr(dom))}
        \cup {DictSet(ImperfectiveOf(dom), k_infinitive, inf) : inf \in Infinitives}
        \cup {DictSet2(ImperfectiveOf(dom), k_present_tense, key, leaf) :
                  key \in Persons, leaf \in Leaves}
        \cup {DictSet2(ImperfectiveOf(dom), k_past_tense, key, leaf) :
                  key \in PastForms, leaf \in Leaves}

\* raw values of the perfective column
RawPerfectives ==
    {PerfectiveOf(dom), JNone, JStr(dom), JDict(<<>>),
     DictSet(PerfectiveOf(dom), k_future_simple, JNone)}
        \cup {DictSet(PerfectiveOf(dom), k_infinitive, inf) : inf \in Infinitives}
        \cup {DictSet2(PerfectiveOf(dom), k_future_simple, key, leaf) :
                  key \in Persons, leaf \in Leaves}

\* raw values of the translations column of the rows tried
RowTranslations ==
    {JList(<<D1(es, Words(<<amar>>))>>), D1(es, Words(<<amar>>)), Legacy(es, amar),
     JNone, JStr(amar)}

\* raw rows of the nouns table
RawNouns ==
    { [id |-> 1, noun |-> dom, gender |-> <<"m">>, translations |-> tr, declension |-> d] :
        tr \in RowTranslations, d \in RawDeclensions }

\* raw rows of the verbs table: one aspect varies, the other is as created
RawVerbs ==
    { [id |-> 1, verb_pair_id |-> dom, conjugation_type |-> 1, translations |-> tr,
       imperfective |-> i, perfective |-> PerfectiveOf(dom)] :
        tr \in {JList(<<D1(es, Words(<<amar>>))>>), JNone}, i \in RawImperfectives }
    \cup
    { [id |-> 1, verb_pair_id |-> dom, conjugation_type |-> 1, translations |-> tr,
       imperfective |-> ImperfectiveOf(dom), perfective |-> pf] :
        tr \in {JList(<<D1(es, Words(<<amar>>))>>), JNone}, pf \in RawPerfectives }

\* normalize_noun_for_response on the raw noun row
NormalizeNoun ==
    /\ probe.phase = "raw" /\ probe.kind = "noun"
    /\ probe' = [probe EXCEPT !.phase = "once",
                              !.once = normalize_noun_for_response(probe.raw)]
    /\ UNCHANGED <<nouns, verbs, resp, accounts, groups, clock>>

\* normalize_noun_for_response on its own result
RenormalizeNoun ==
    /\ probe.phase = "once" /\ probe.kind = "noun"
    /\ probe' = [probe EXCEPT !.phase = "twice",
                              !.twice = normalize_noun_for_response(probe.once)]
    /\ UNCHANGED <<nouns, verbs, resp, accounts, groups, clock>>

\* normalize_verb_for_response on the raw verb row
NormalizeVerb ==
    /\ probe.phase = "raw" /\ probe.kind = "verb"
    /\ probe' = [probe EXCEPT !.phase = "once",
                              !.once = normalize_verb_for_response(probe.raw)]
    /\ UNCHANGED <<nouns, verbs, resp, accounts, groups, clock>>

\* normalize_verb_for_response on its own result
RenormalizeVerb ==
    /\ probe.phase = "once" /\ probe.kind = "verb"
    /\ probe' = [probe EXCEPT !.phase = "twice",
                              !.twice = normalize_verb_for_response(probe.once)]
    /\ UNCHANGED <<nouns, verbs, resp, accounts, groups, clock>>

InitForms ==
    /\ InitStore
    /\ resp = NoResp
    /\ \/ probe \in [phase : {"raw"}, kind : {"noun"}, raw : RawNouns,
                      once : {JNone}, twice : {JNone}]
       \/ probe \in [phase : {"raw"}, kind : {"verb"}, raw : RawVerbs,
                      once : {JNone}, twice : {JNone}]

NextForms ==
    \/ NormalizeNoun
    \/ RenormalizeNoun
    \/ NormalizeVerb
    \/ RenormalizeVerb

SpecForms == InitForms /\ [][NextForms]_vars

----------------------------------------------------------------------------
(* crud/noun.py get_nouns, crud/verb.py get_verbs against the store as a   *)
(* collaborator: the statements carry no ORDER BY, so each one gets the    *)
(* rows in an order of the store's choosing, and each session.exec may     *)
(* raise.  `failure` names the statement at which the store fails: the     *)
(* count, the page fetch, the re-fetch, or none.                           *)

\* the orders in which the store may return the rows of a statement without ORDER BY
Orders(rows) ==
    { [i \in 1..Len(rows) |-> rows[p[i]]] : p \in Permutations(1..Len(rows)) }

\* what a raising session.exec leaves of the call: the exception and its statement
StoreError(statement) == [error |-> "StoreError", statement |-> statement]

\* FetchAndFilter returning the first pass when the re-fetch raises
FetchAndFilter_FirstPass(paged, refetched, failure, page, per_page, translation_lang, translation_text) ==
    LET Match(row) == _matches_translation_filter(row.translations,
                                                  translation_lang.s, translation_text.s)
        offset == (page - 1) * per_page
        nouns_ == Slice(paged, offset, offset + per_page)
    IN  IF failure \in {"count", "page"} THEN StoreError(failure)
        ELSE IF Truthy(translation_lang) /\ Truthy(translation_text)
        THEN LET filtered == SelectSeq(nouns_, Match)
             IN  IF filtered # <<>>
                 THEN IF failure = "refetch"
                      THEN [items |-> filtered, total |-> Len(paged)]
                      ELSE [items |-> Slice(SelectSeq(refetched, Match),
                                            offset, offset + per_page),
                            total |-> Len(SelectSeq(refetched, Match))]
                 ELSE [items |-> filtered, total |-> 0]
        ELSE [items |-> nouns_, total |-> Len(paged)]

\* FetchAndFilter filtering as soon as translation_lang is not empty and
\* translation_text is given
FetchAndFilter_LangOnly(paged, refetched, failure, page, per_page, translation_lang, translation_text) ==
    LET Match(row) == _matches_translation_filter(row.translations,
                                                  translation_lang.s, translation_text.s)
        offset == (page - 1) * per_page
        nouns_ == Slice(paged, offset, offset + per_page)
    IN  IF failure \in {"count", "page"} THEN StoreError(failure)
        ELSE IF Truthy(translation_lang) /\ translation_text # JNone
        THEN LET filtered == SelectSeq(nouns_, Match)
             IN  IF filtered # <<>>
                 THEN IF failure = "refetch" THEN StoreError("refetch")
                      ELSE [items |-> Slice(SelectSeq(refetched, Match),
                                            offset, offset + per_page),
                            total |-> Len(SelectSeq(refetched, Match))]
                 ELSE [items |-> filtered, total |-> 0]
        ELSE [items |-> nouns_, total |-> Len(paged)]

\* the body of get_nouns / get_verbs after the where clauses: `paged` is what the
\* store gives for the statement before offset and limit, `refetched` what it gives
\* for all_statement
FetchAndFilter(paged, refetched, failure, page, per_page, translation_lang, translation_text) ==
    LET Match(row) == _matches_translation_filter(row.translations,
                                                  translation_lang.s, translation_text.s)
        total == Len(paged)
        offset == (page - 1) * per_page
        nouns_ == Slice(paged, offset, offset + per_page)
    IN  IF failure = "count" THEN StoreError("count")
        ELSE IF failure = "page" THEN StoreError("page")
        ELSE IF Truthy(translation_lang) /\ Truthy(translation_text)
        THEN LET filtered_nouns == SelectSeq(nouns_, Match)
             IN  IF filtered_nouns # <<>>
                 THEN IF failure = "refetch" THEN StoreError("refetch")
                      ELSE LET filtered_all == SelectSeq(refetched, Match)
                               start_idx == (page - 1) * per_page
                               end_idx == start_idx + per_page
                           IN  [items |-> Slice(filtered_all, start_idx, end_idx),
                                total |-> Len(filtered_all)]
                 ELSE [items |-> filtered_nouns, total |-> 0]
        ELSE [items |-> nouns_, total |-> total]

\* the response of a list endpoint: an exception of the store is not caught by
\* get_nouns, get_verbs or the route, FastAPI answers 500 and logs the exception
Listing(kind, q, got) ==
    IF "error" \in DOMAIN got
    THEN [kind |-> kind, q |-> q, status |-> 500, raised |-> got.statement]
    ELSE [kind |-> kind, q |-> q, status |-> 200,
          body |-> PaginatedResponse(
                       [i \in 1..Len(got.items) |->
                           IF kind = "nouns" THEN normalize_noun_for_response(got.items[i])
                           ELSE normalize_verb_for_response(got.items[i])],
                       got.total, q.page, q.per_page, TotalPages(got.total, q.per_page))]

\* GET /api/nouns served by a store that orders and fails as it chooses
ListNounsStore(q, paged, refetched, failure) ==
    LET Where(row) == NounWhere(row, q.noun, q.gender)
    IN  /\ Idle
        /\ paged \in Orders(SelectSeq(nouns, Where))
        /\ refetched \in Orders(SelectSeq(nouns, Where))
        /\ resp' = Listing("nouns", q,
                           FetchAndFilter(paged, refetched, failure, q.page, q.per_page,
                                          q.translation_lang, q.translation_text))
        /\ UNCHANGED <<nouns, verbs, probe, accounts, groups, clock>>

\* GET /api/verbs served by the same store
ListVerbsStore(q, paged, refetched, failure) ==
    LET Where(row) == VerbWhere(row, q.verb_pair_id, q.conjugation_type)
    IN  /\ Idle
        /\ paged \in Orders(SelectSeq(verbs, Where))
        /\ refetched \in Orders(SelectSeq(verbs, Where))
        /\ resp' = Listing("verbs", q,
                           FetchAndFilter(paged, refetched, failure, q.page, q.per_page,
                                          q.translation_lang, q.translation_text))
        /\ UNCHANGED <<nouns, verbs, probe, accounts, groups, clock>>

\* the caller receives the response and keeps it with the store it was taken from
Receive ==
    /\ ~Idle
    /\ resp' = NoResp
    /\ probe' = [phase |-> "received", resp |-> resp, nouns |-> nouns, verbs |-> verbs]
    /\ UNCHANGED <<nouns, verbs, accounts, groups, clock>>

\* the list requests tried against the choosing store
StoreNounQueries ==
    {q \in NounQueries : /\ q.noun = JNone /\ q.gender = JNone /\ q.page <= 2
                         /\ <<q.translation_lang, q.translation_text>> \in
                                {<<JNone, JNone>>, <<JStr(es), JStr(<<"A", "M">>)>>}}

StoreVerbQueries ==
    {q \in VerbQueries : /\ q.verb_pair_id = JNone /\ q.conjugation_type = JNone
                         /\ q.page <= 2
                         /\ <<q.translation_lang, q.translation_text>> \in
                                {<<JNone, JNone>>, <<JStr(es), JStr(<<"A", "M">>)>>}}

NextStore ==
    \/ \E u \in Admins, c \in SomeNounCreates :
           NextId(nouns) <= MaxId /\ verbs = <<>> /\ create_noun_endpoint(u, c)
    \/ \E u \in Admins, c \in SomeVerbCreates :
           NextId(verbs) <= MaxId /\ nouns = <<>> /\ create_verb_endpoint(u, c)
    \/ \E q \in StoreNounQueries, failure \in {"none", "count", "page", "refetch"} :
           \E paged \in Orders(nouns), refetched \in Orders(nouns) :
               ListNounsStore(q, paged, refetched, failure)
    \/ \E q \in StoreVerbQueries, failure \in {"none", "count", "page", "refetch"} :
           \E paged \in Orders(verbs), refetched \in Orders(verbs) :
               ListVerbsStore(q, paged, refetched, failure)
    \/ Receive

SpecStore == Init /\ [][NextStore]_vars

----------------------------------------------------------------------------
(* The filter-pair specification: list requests that set none, one or both  *)
(* of translation_lang and translation_text, served by the choosing store.  *)

\* the translation filters tried: none, one parameter alone, one parameter empty,
\* both
PairFilters ==
    { <<JNone, JNone>>,
      <<JNone, JStr(<<"A", "M">>)>>,
      <<JStr(es), JStr(<<>>)>>,
      <<JStr(es), JStr(<<"A", "M">>)>> }

PairNounQueries ==
    {q \in NounQueries : /\ q.noun = JNone /\ q.gender = JNone /\ q.page <= 2
                         /\ <<q.translation_lang, q.translation_text>> \in PairFilters}

PairVerbQueries ==
    {q \in VerbQueries : /\ q.verb_pair_id = JNone /\ q.conjugation_type = JNone
                         /\ q.page <= 2
                         /\ <<q.translation_lang, q.translation_text>> \in PairFilters}

NextFilter ==
    \/ \E u \in Admins, c \in SomeNounCreates :
           NextId(nouns) <= MaxId /\ verbs = <<>> /\ create_noun_endpoint(u, c)
    \/ \E u \in Admins, c \in SomeVerbCreates :
           NextId(verbs) <= MaxId /\ nouns = <<>> /\ create_verb_endpoint(u, c)
    \/ \E q \in PairNounQueries, failure \in {"none", "count", "page", "refetch"} :
           \E paged \in Orders(nouns), refetched \in Orders(nouns) :
               ListNounsStore(q, paged, refetched, failure)
    \/ \E q \in PairVerbQueries, failure \in {"none", "count", "page", "refetch"} :
           \E paged \in Orders(verbs), refetched \in Orders(verbs) :
               ListVerbsStore(q, paged, refetched, failure)
    \/ SendResponse

SpecFilter == Init /\ [][NextFilter]_vars

----------------------------------------------------------------------------
(* api/routes/auth.py register, api/routes/users.py get_user.  A users row *)
(* keeps id, username, id_rol and is_active; the e-mail address of a       *)
(* request is its username at a fixed host, so the two uniqueness checks   *)
(* of register coincide.  roles holds the three seeded rows and SQLite     *)
(* does not enforce the foreign key of id_rol, so any integer is stored.   *)

\* bodies of POST /api/auth/register (RegisterRequest): id_rol is any integer
RegisterRequests ==
    { [username |-> n, id_rol |-> r] : n \in {"eva", "leo", "max"}, r \in {2, 3, 4} }

\* POST /api/auth/register: create_user stores the id_rol of the request
register(register_data) ==
    /\ Idle
    /\ Cardinality(users) < MaxUsers
    /\ IF \E u \in users : u.username = register_data.username
       THEN /\ resp' = Reply("register", 400)
            /\ UNCHANGED users
       ELSE /\ users' = users \cup
                  { [id |-> 1 + Cardinality(users), username |-> register_data.username,
                     id_rol |-> register_data.id_rol, is_active |-> TRUE] }
            /\ resp' = Reply("register", 201)
    /\ UNCHANGED <<nouns, verbs, probe, groups, clock, link_student_teacher, calls>>

\* GET /api/users/{user_id}:
\* `if current_user.role and current_user.role.name not in ["admin", "teacher"]`
get_user(current_user, user_id) ==
    /\ Idle
    /\ resp' = IF get_current_active_user(current_user) # 0
               THEN Reply("get_user", get_current_active_user(current_user))
               ELSE IF /\ RoleName(current_user.id_rol) # "none"
                       /\ RoleName(current_user.id_rol) \notin {"admin", "teacher"}
               THEN Reply("get_user", 403)
               ELSE IF \A u \in users : u.id # user_id
               THEN Reply("get_user", 404)
               ELSE Reply("get_user", 200)
    /\ UNCHANGED <<nouns, verbs, probe, accounts, groups, clock>>

\* the role specification: users register, entries are written and read, users are read
NextRoles ==
    \/ \E r \in RegisterRequests : register(r)
    \/ \E u \in users, c \in SomeNounCreates :
           Only("nouns") /\ NextId(nouns) <= MaxId /\ create_noun_endpoint(u, c)
    \/ \E u \in users, c \in OneVerbCreate :
           Only("verbs") /\ NextId(verbs) <= MaxId /\ create_verb_endpoint(u, c)
    \/ \E id \in EntryIds : get_noun(id)
    \/ \E id \in EntryIds : get_verb(id)
    \/ \E u \in users, id \in EntryIds, c \in NounUpdates : update_noun_endpoint(u, id, c)
    \/ \E u \in users, id \in EntryIds, c \in PlainVerbUpdates :
           update_verb_endpoint(u, id, c)
    \/ \E u \in users, id \in EntryIds : delete_noun_endpoint(u, id)
    \/ \E u \in users, id \in EntryIds : delete_verb_endpoint(u, id)
    \/ \E u \in users, id \in 1..(MaxUsers + 1) : get_user(u, id)
    \/ SendResponse

SpecRoles == Init /\ [][NextRoles]_vars

----------------------------------------------------------------------------
(* api/routes/students.py link_student, unlink_student; list_noun_groups   *)
(* and list_verb_groups of the group routes.  A row of link_student_teacher *)
(* is [id, id_student, id_teacher, created_at]: id is the primary key and   *)
(* no constraint is declared on the pair (id_student, id_teacher).          *)

\* the positions of the link rows of the pair
get_link(student_id, teacher_id) ==
    {k \in 1..Len(link_student_teacher) :
        /\ link_student_teacher[k].id_student = student_id
        /\ link_student_teacher[k].id_teacher = teacher_id}

\* link_student_checks without the lookup of an existing link
link_student_checks_NoLookup(current_user, student_id) ==
    IF get_current_active_user(current_user) # 0
    THEN get_current_active_user(current_user)
    ELSE IF RoleName(current_user.id_rol) # "teacher" THEN 403
    ELSE IF \A u \in users : u.id # student_id THEN 404
    ELSE IF \E u \in users : u.id = student_id /\ u.id_rol # 3 THEN 400
    ELSE 0

\* link_student up to its existence check: the status raised, 0 when all checks pass
link_student_checks(current_user, student_id) ==
    IF get_current_active_user(current_user) # 0
    THEN get_current_active_user(current_user)
    ELSE IF RoleName(current_user.id_rol) # "teacher" THEN 403
    ELSE IF \A u \in users : u.id # student_id THEN 404
    ELSE IF \E u \in users : u.id = student_id /\ u.id_rol # 3 THEN 400
    ELSE IF get_link(student_id, current_user.id) # {} THEN 400
    ELSE 0

\* session.add(LinkStudentTeacher(id_student=..., id_teacher=...)); session.commit()
InsertLink(student_id, teacher_id) ==
    Append(link_student_teacher,
           [id |-> NextId(link_student_teacher), id_student |-> student_id,
            id_teacher |-> teacher_id, created_at |-> clock])

\* POST /api/students/{student_id}/link, served without another request in between
link_student(current_user, student_id) ==
    /\ Idle
    /\ NextId(link_student_teacher) <= MaxLinks
    /\ IF link_student_checks(current_user, student_id) # 0
       THEN /\ resp' = Reply("link_student", link_student_checks(current_user, student_id))
            /\ UNCHANGED link_student_teacher
       ELSE /\ link_student_teacher' = InsertLink(student_id, current_user.id)
            /\ resp' = Reply("link_student", 201)
    /\ UNCHANGED <<nouns, verbs, probe, users, calls, groups, clock>>

\* DELETE /api/students/{student_id}/unlink: the first row of the pair is deleted
unlink_student(current_user, student_id) ==
    /\ Idle
    /\ IF get_current_active_user(current_user) # 0
       THEN /\ resp' = Reply("unlink_student", get_current_active_user(current_user))
            /\ UNCHANGED link_student_teacher
       ELSE IF RoleName(current_user.id_rol) # "teacher"
       THEN /\ resp' = Reply("unlink_student", 403)
            /\ UNCHANGED link_student_teacher
       ELSE IF get_link(student_id, current_user.id) = {}
       THEN /\ resp' = Reply("unlink_student", 404)
            /\ UNCHANGED link_student_teacher
       ELSE /\ link_student_teacher' =
                   LET first == CHOOSE k \in get_link(student_id, current_user.id) :
                                    \A j \in get_link(student_id, current_user.id) : k <= j
                   IN  SubSeq(link_student_teacher, 1, first - 1)
                       \o SubSeq(link_student_teacher, first + 1, Len(link_student_teacher))
            /\ resp' = Reply("unlink_student", 204)
    /\ UNCHANGED <<nouns, verbs, probe, users, calls, groups, clock>>

\* get_noun_groups_by_user, get_verb_groups_by_user: the ids of the groups of the
\* table whose id_user is the id
get_groups_by_user(table, user_id) ==
    LET owned == SelectSeq(table, LAMBDA group : group.id_user = user_id)
    IN  [k \in 1..Len(owned) |-> owned[k].id]

\* groups.extend(get_noun_groups_by_user(session, teacher.id)) for the first n rows
\* of current_user.teachers
RECURSIVE Extended(_, _, _)
Extended(table, current_user, n) ==
    IF n = 0 THEN get_groups_by_user(table, current_user.id)
    ELSE Extended(table, current_user, n - 1)
         \o get_groups_by_user(table, teachers(current_user)[n].id)

\* the body of list_noun_groups / list_verb_groups after the dependency
list_groups(table, current_user) ==
    IF RoleName(current_user.id_rol) = "student"
    THEN Extended(table, current_user, Len(teachers(current_user)))
    ELSE get_groups_by_user(table, current_user.id)

\* GET /api/noun-groups
list_noun_groups(current_user) ==
    /\ Idle
    /\ resp' = IF get_current_active_user(current_user) # 0
               THEN Reply("list_noun_groups", get_current_active_user(current_user))
               ELSE [kind |-> "list_noun_groups", status |-> 200,
                     body |-> list_groups(noun_groups, current_user)]
    /\ UNCHANGED <<nouns, verbs, probe, accounts, groups, clock>>

\* GET /api/verb-groups
list_verb_groups(current_user) ==
    /\ Idle
    /\ resp' = IF get_current_active_user(current_user) # 0
               THEN Reply("list_verb_groups", get_current_active_user(current_user))
               ELSE [kind |-> "list_verb_groups", status |-> 200,
                     body |-> list_groups(verb_groups, current_user)]
    /\ UNCHANGED <<nouns, verbs, probe, accounts, groups, clock>>

\* bodies of POST /api/auth/register of a teacher and of a student
SchoolRequests == {r \in RegisterRequests : r.id_rol \in {2, 3}}

\* the student specification: users register, teachers link and unlink students,
\* users create groups and list them
NextStudents ==
    \/ \E r \in SchoolRequests : register(r)
    \/ \E u \in users, id \in 1..MaxUsers : link_student(u, id)
    \/ \E u \in users, id \in 1..MaxUsers : unlink_student(u, id)
    \/ \E u \in users, c \in GroupCreates :
           verb_groups = <<>> /\ create_noun_group_endpoint(u, c)
    \/ \E u \in users, c \in GroupCreates :
           noun_groups = <<>> /\ create_verb_group_endpoint(u, c)
    \/ \E u \in users : list_noun_groups(u)
    \/ \E u \in users : list_verb_groups(u)
    \/ SendResponse

SpecStudents == Init /\ [][NextStudents]_vars

----------------------------------------------------------------------------
(* link_student under concurrent requests.  The route is a plain `def`, so  *)
(* FastAPI runs each request in a worker thread with a session of its own:   *)
(* the checks of one request and its insert are two steps, and the steps of  *)
(* another request may fall between them.  `calls` holds the requests that   *)
(* passed their checks and have not committed yet.                           *)

\* link_student from its start to the existence check: a request that fails a check
\* is answered at once
link_student_begins(current_user, student_id) ==
    /\ Len(calls) < MaxCalls
    /\ IF link_student_checks(current_user, student_id) # 0
       THEN /\ resp' = Reply("link_student", link_student_checks(current_user, student_id))
            /\ UNCHANGED calls
       ELSE /\ calls' = Append(calls, [id_student |-> student_id,
                                       id_teacher |-> current_user.id])
            /\ UNCHANGED resp
    /\ UNCHANGED <<nouns, verbs, probe, users, link_student_teacher, groups, clock>>

\* link_student from session.add(link) to the response: the insert has no constraint
\* to violate besides the primary key id
link_student_commits(k) ==
    /\ k \in 1..Len(calls)
    /\ NextId(link_student_teacher) <= MaxLinks
    /\ link_student_teacher' = InsertLink(calls[k].id_student, calls[k].id_teacher)
    /\ calls' = SubSeq(calls, 1, k - 1) \o SubSeq(calls, k + 1, Len(calls))
    /\ resp' = Reply("link_student", 201)
    /\ UNCHANGED <<nouns, verbs, probe, users, groups, clock>>

\* the concurrent specification: users register, link_student requests overlap
NextRace ==
    \/ \E r \in SchoolRequests : calls = <<>> /\ register(r)
    \/ \E u \in users, id \in 1..MaxUsers : link_student_begins(u, id)
    \/ \E k \in 1..MaxCalls : link_student_commits(k)
    \/ \E u \in users, id \in 1..MaxUsers : calls = <<>> /\ unlink_student(u, id)
    \/ SendResponse

SpecRace == Init /\ [][NextRace]_vars

----------------------------------------------------------------------------
(* The ownership specification: every user creates groups, and every user   *)
(* sends update, delete, add and remove requests for every group.  The noun *)
(* side and the verb side do not read each other, so one side at a time      *)
(* holds rows.                                                               *)

\* the verbs and the verb groups hold no row
NounSide == verbs = <<>> /\ verb_groups = <<>>

\* the nouns and the noun groups hold no row
VerbSide == nouns = <<>> /\ noun_groups = <<>>

NextOwners ==
    \/ \E u \in Admins, c \in OneNounCreate :
           NounSide /\ NextId(nouns) <= MaxId /\ create_noun_endpoint(u, c)
    \/ \E u \in Admins, c \in OneVerbCreate :
           VerbSide /\ NextId(verbs) <= MaxId /\ create_verb_endpoint(u, c)
    \/ \E u \in users, c \in GroupCreates : NounSide /\ create_noun_group_endpoint(u, c)
    \/ \E u \in users, c \in GroupCreates : VerbSide /\ create_verb_group_endpoint(u, c)
    \/ \E u \in users, g \in GroupIds, c \in GroupUpdates :
           update_noun_group_endpoint(u, g, c)
    \/ \E u \in users, g \in GroupIds, c \in GroupUpdates :
           update_verb_group_endpoint(u, g, c)
    \/ \E u \in users, g \in GroupIds : delete_noun_group_endpoint(u, g)
    \/ \E u \in users, g \in GroupIds : delete_verb_group_endpoint(u, g)
    \/ \E u \in users, g \in GroupIds, id \in EntryIds :
           add_noun_to_group_endpoint(u, g, id)
    \/ \E u \in users, g \in GroupIds, id \in EntryIds :
           add_verb_to_group_endpoint(u, g, id)
    \/ \E u \in users, g \in GroupIds, id \in EntryIds :
           remove_noun_from_group_endpoint(u, g, id)
    \/ \E u \in users, g \in GroupIds, id \in EntryIds :
           remove_verb_from_group_endpoint(u, g, id)
    \/ SendResponse

SpecOwners == Init /\ [][NextOwners]_vars

----------------------------------------------------------------------------
(* Vocabulary of the properties: the specification's own notions, stated   *)
(* on the store and on the request of the response in `resp`.              *)

Listed == resp.kind \in {"nouns", "verbs"}

\* the table the request of `resp` reads
Table == IF resp.kind = "nouns" THEN nouns ELSE verbs

\* a parameter was given and is not empty
Given(param) == param # JNone /\ (param.t = "str" => param.s # <<>>)
                              /\ (param.t = "int" => param.n # 0)

\* the pushable predicates of the request: name substring and enum equality
Pushable(row) ==
    IF resp.kind = "nouns"
    THEN /\ Given(resp.q.noun) =>
               \E i \in 1..Len(row.noun), j \in 1..Len(row.noun) :
                   SubSeq(row.noun, i, j) = resp.q.noun.s
         /\ Given(resp.q.gender) => row.gender = Lower(resp.q.gender.s)
    ELSE /\ Given(resp.q.verb_pair_id) =>
               \E i \in 1..Len(row.verb_pair_id), j \in 1..Len(row.verb_pair_id) :
                   SubSeq(row.verb_pair_id, i, j) = resp.q.verb_pair_id.s
         /\ Given(resp.q.conjugation_type) =>
               row.conjugation_type = resp.q.conjugation_type.n

\* the translation filter is requested: both parameters given and not empty
FilterActive == Given(resp.q.translation_lang) /\ Given(resp.q.translation_text)

\* the blocks of a canonical translations value (a list of {lang: [words]})
\* one of whose words under `lang` contains `text`, case-insensitively
CanonicalMatch(translations, lang, text) ==
    \E b \in 1..Len(translations.xs) :
        /\ lang \in DOMAIN translations.xs[b].kv
        /\ translations.xs[b].kv[lang].t = "list"
        /\ \E w \in 1..Len(translations.xs[b].kv[lang].xs) :
               LET word == Lower(translations.xs[b].kv[lang].xs[w].s)
                   t == Lower(text)
               IN  \E i \in 1..(Len(word) + 1), j \in 0..Len(word) :
                       SubSeq(word, i, j) = t

Translated(row) ==
    CanonicalMatch(row.translations, resp.q.translation_lang.s, resp.q.translation_text.s)

\* positions in the table of the rows under the pushable predicates, and of
\* those that also satisfy the translation predicate when it is requested
PushedAt == {i \in 1..Len(Table) : Pushable(Table[i])}

FullAt == {i \in PushedAt : FilterActive => Translated(Table[i])}

\* the rows at a set of positions, in store order
RECURSIVE RowsAt(_, _)
RowsAt(at, i) ==
    IF i > Len(Table) THEN <<>>
    ELSE IF i \in at THEN <<Table[i]>> \o RowsAt(at, i + 1)
    ELSE RowsAt(at, i + 1)

Pushed == RowsAt(PushedAt, 1)

Full == RowsAt(FullAt, 1)

\* the window of page p with n rows per page, cut out of a sequence
Window(seq, p, n) ==
    [k \in 1..(IF Len(seq) >= p * n THEN n
               ELSE IF Len(seq) > (p - 1) * n THEN Len(seq) - (p - 1) * n
               ELSE 0) |-> seq[(p - 1) * n + k]]

\* the raw page window of page p holds a record matching the translation predicate
RawMatch(p) ==
    \E k \in 1..Len(Window(Pushed, p, resp.q.per_page)) :
        Translated(Window(Pushed, p, resp.q.per_page)[k])

Ids(rows) == [k \in 1..Len(rows) |-> rows[k].id]

\* the request of `resp` asked again for page p
Page(p) ==
    IF resp.kind = "nouns" THEN list_nouns(nouns, [resp.q EXCEPT !.page = p])
    ELSE list_verbs(verbs, [resp.q EXCEPT !.page = p])

\* the least n with n * d >= t
TruePages(t, d) == CHOOSE n \in 0..t : n * d >= t /\ \A m \in 0..t : m * d >= t => n <= m

----------------------------------------------------------------------------
(* Properties of the list specification *)

\* C1: with no translation filter in force, total is the number of stored records
\* under the pushable predicates alone, whatever page and per_page are
C1_CountNoFilter ==
    (Listed /\ ~FilterActive) => resp.body.total = Cardinality(PushedAt)

\* C1 witness: a second page of a pushable-filtered list that reports more records
\* than the page carries
C1_Witness ==
    /\ Listed /\ ~FilterActive
    /\ resp.q.page = 2
    /\ Cardinality(PushedAt) < Len(Table)
    /\ resp.body.total = Cardinality(PushedAt)
    /\ resp.body.total > Len(resp.body.items)
    /\ Len(resp.body.items) > 0

\* C2: with the translation filter in force and a match in the raw page window,
\* total is the size of the full filtered list and items is its page window
C2_TwoPass ==
    (Listed /\ FilterActive /\ RawMatch(resp.q.page)) =>
        /\ resp.body.total = Len(Full)
        /\ Ids(resp.body.items) = Ids(Window(Full, resp.q.page, resp.q.per_page))

\* C2 witness: the page returned holds more records than the raw window had matches
C2_Witness ==
    /\ Listed /\ FilterActive /\ RawMatch(resp.q.page)
    /\ resp.body.total = Len(Full)
    /\ Len(resp.body.items) >
           Cardinality({k \in 1..Len(Window(Pushed, resp.q.page, resp.q.per_page)) :
                           Translated(Window(Pushed, resp.q.page, resp.q.per_page)[k])})

\* the ids of the items of pages 1..n of the request of `resp`, concatenated
RECURSIVE PagesUpTo(_)
PagesUpTo(n) == IF n = 0 THEN <<>> ELSE PagesUpTo(n - 1) \o Ids(Page(n).items)

\* the request for page p takes the early-empty branch
EarlyEmpty(p) == FilterActive /\ ~RawMatch(p)

\* C3: if no request for a page in 1..T takes the early-empty branch, T the
\* total_pages reported for page 1, the pages 1..T concatenated are the full
\* filtered set, nothing repeated and nothing left out
C3_Exhaustive ==
    Listed =>
        LET T == Page(1).total_pages
        IN  (\A p \in 1..T : ~EarlyEmpty(p)) => PagesUpTo(T) = Ids(Full)

\* C4: with the translation filter in force and no match in the raw page window,
\* the page is empty and total is 0, whatever the other pages hold
C4_EarlyEmpty ==
    (Listed /\ FilterActive /\ ~RawMatch(resp.q.page)) =>
        /\ resp.body.items = <<>>
        /\ resp.body.total = 0

\* C4 witness: page 1 has no match and reports total = 0 while page 2 has matches
C4_Witness ==
    /\ Listed /\ FilterActive
    /\ resp.q.page = 1
    /\ ~RawMatch(1)
    /\ RawMatch(2)
    /\ resp.body.items = <<>>
    /\ resp.body.total = 0

\* C5: a page beyond the true total_pages of the filtered set comes back empty
\* with the true total and the true total_pages
C5_BeyondLastPage ==
    (Listed /\ resp.q.page > TruePages(Len(Full), resp.q.per_page)) =>
        /\ resp.body.items = <<>>
        /\ resp.body.total = Len(Full)
        /\ resp.body.total_pages = TruePages(Len(Full), resp.q.per_page)

\* C6: with the translation filter in force and exactly 3 matching records in the
\* store, per_page = 1 and page = 1 give 1 item, total = 3 and total_pages = 3
C6_ThreeMatches ==
    (Listed /\ FilterActive /\ Len(Full) = 3
            /\ resp.q.per_page = 1 /\ resp.q.page = 1) =>
        /\ Len(resp.body.items) = 1
        /\ resp.body.total = 3
        /\ resp.body.total_pages = 3

\* C7: total_pages is 0 when total is 0, and otherwise the one number with
\* total_pages * per_page >= total > (total_pages - 1) * per_page
C7_TotalPages ==
    Listed =>
        /\ resp.body.total >= 0
        /\ resp.body.total = 0 => resp.body.total_pages = 0
        /\ resp.body.total > 0 =>
               /\ resp.body.total_pages * resp.q.per_page >= resp.body.total
               /\ resp.body.total > (resp.body.total_pages - 1) * resp.q.per_page

\* C7 witness: a total that per_page does not divide, rounded up
C7_Witness ==
    /\ Listed
    /\ resp.q.per_page = 2
    /\ resp.body.total = 3
    /\ resp.body.total_pages = 2

----------------------------------------------------------------------------
(* Properties of the normalisation specification *)

\* a raw value read as a list of blocks: a single mapping is a one-element list,
\* a list is itself, anything else and any empty value is the empty list
AsBlocks(raw) ==
    IF raw.t = "dict" /\ DOMAIN raw.kv # {} THEN <<raw>>
    ELSE IF raw.t = "list" THEN raw.xs
    ELSE <<>>

\* lower(text) is a substring of lower(word)
ContainsNoCase(word, text) ==
    \E i \in 1..(Len(word) + 1), j \in 0..Len(word) :
        SubSeq(Lower(word), i, j) = Lower(text)

\* some block that is a mapping has under `lang` a list with a word containing `text`
SomeBlockMatches(raw, lang, text) ==
    \E b \in 1..Len(AsBlocks(raw)) :
        LET block == AsBlocks(raw)[b]
        IN  /\ block.t = "dict"
            /\ lang \in DOMAIN block.kv
            /\ block.kv[lang].t = "list"
            /\ \E w \in 1..Len(block.kv[lang].xs) :
                   ContainsNoCase(block.kv[lang].xs[w].s, text)

\* C8: _matches_translation_filter is true exactly when some mapping block of the
\* value read as a list has under lang a list with a word containing text,
\* case-insensitively, and false for every other input
C8_MatchExactly ==
    probe.phase = "matched" =>
        (probe.matched <=> SomeBlockMatches(probe.translations, probe.lang, probe.text))

\* C8 witness: a single mapping, not wrapped in a list, matched by a text that
\* differs from the stored word in case only
C8_Witness ==
    /\ probe.phase = "matched"
    /\ probe.translations.t = "dict"
    /\ probe.text = <<"A", "M">>
    /\ probe.matched

\* the raw value holds the legacy pair (L, T), alone or inside a list
HoldsLegacy(raw, L, T) ==
    \/ raw = Legacy(L, T)
    \/ raw.t = "list" /\ \E i \in 1..Len(raw.xs) : raw.xs[i] = Legacy(L, T)

LegacyPairs == {<<es, amar>>, <<en, love>>}

\* C9: a record stored in the legacy encoding {"language": L, "translation": T},
\* alone or inside a list, is matched by the filter (L, text) whenever lower(text)
\* is a substring of lower(T)
C9_LegacyMatched ==
    \A lt \in LegacyPairs :
        (/\ probe.phase = "matched"
         /\ HoldsLegacy(probe.translations, lt[1], lt[2])
         /\ probe.lang = lt[1]
         /\ ContainsNoCase(lt[2], probe.text)) => probe.matched

\* C10: normalising the legacy pair (L, T) gives what normalising {L: [T]} gives,
\* in the filter path and in the response path of nouns and of verbs
C10_LegacyEquivalence ==
    \A lt \in LegacyPairs :
        (probe.phase = "normalized" /\ probe.translations = Legacy(lt[1], lt[2])) =>
            /\ probe.filter_norm = _normalize_translations(Canonical(lt[1], lt[2]))
            /\ probe.noun_norm = ResponseTranslations(Canonical(lt[1], lt[2]))
            /\ probe.verb_norm = ResponseTranslations(Canonical(lt[1], lt[2]))

----------------------------------------------------------------------------
(* Vocabulary of the word-form properties *)

\* the value is a mapping holding the key
HasKey(v, key) == v.t = "dict" /\ key \in DOMAIN v.kv

\* col[group][key] exists
HasLeaf(col, group, key) == HasKey(col, group) /\ HasKey(col.kv[group], key)

At(col, group, key) == col.kv[group].kv[key]

\* a mapping with word, accent and phonetics
FullForm(v) == HasKey(v, k_word) /\ HasKey(v, k_accent) /\ HasKey(v, k_phonetics)

\* the word form written for the bare string s
FormOfString(s) == JDict((k_word :> s) @@ (k_accent :> s) @@ (k_phonetics :> JStr(<<>>)))

\* the known positions of the word forms: <<group, key>> in each column
DeclensionPositions == {<<n, c>> : n \in {k_singular, k_plural}, c \in Cases}

ImperfectivePositions ==
    {<<k_present_tense, k>> : k \in Persons} \cup {<<k_past_tense, k>> : k \in PastForms}

PerfectivePositions == {<<k_future_simple, k>> : k \in Persons}

\* every group of the column is a mapping whose leaves at the positions are full forms
CanonicalForms(col, positions) ==
    /\ col.t = "dict"
    /\ \A pos \in positions :
           /\ HasKey(col, pos[1])
           /\ col.kv[pos[1]].t = "dict"
           /\ HasLeaf(col, pos[1], pos[2]) => FullForm(At(col, pos[1], pos[2]))

CanonicalInfinitive(col) ==
    /\ HasKey(col, k_infinitive)
    /\ HasKey(col.kv[k_infinitive], k_word)
    /\ FullForm(col.kv[k_infinitive].kv[k_word])

CanonicalTranslations(tr) ==
    tr.t = "list" /\ \A i \in 1..Len(tr.xs) : tr.xs[i].t = "dict"

\* a canonical record: translations a list of blocks, every word form a full mapping
CanonicalRecord(kind, row) ==
    /\ CanonicalTranslations(row.translations)
    /\ IF kind = "noun"
       THEN CanonicalForms(row.declension, DeclensionPositions)
       ELSE /\ CanonicalForms(row.imperfective, ImperfectivePositions)
            /\ CanonicalInfinitive(row.imperfective)
            /\ \/ row.perfective = JNone
               \/ /\ CanonicalForms(row.perfective, PerfectivePositions)
                  /\ CanonicalInfinitive(row.perfective)

\* C11: normalising a canonical noun or verb record returns it unchanged, and
\* normalising the result of a normalisation of any raw record returns that result
C11_Idempotent ==
    /\ (probe.phase \in {"once", "twice"} /\ CanonicalRecord(probe.kind, probe.raw))
           => probe.once = probe.raw
    /\ probe.phase = "twice" => probe.twice = probe.once

\* C11 witness: a verb row whose imperfective infinitive is a bare string was
\* normalised twice, the first normalisation having rewritten it
C11_Witness ==
    /\ probe.phase = "twice"
    /\ probe.kind = "verb"
    /\ HasKey(probe.raw.imperfective, k_infinitive)
    /\ probe.raw.imperfective.kv[k_infinitive].t = "str"
    /\ probe.once # probe.raw

\* the bare strings at the positions of the column became the form of the string
StringsFormed(raw, once, positions) ==
    \A pos \in positions :
        (HasLeaf(raw, pos[1], pos[2]) /\ At(raw, pos[1], pos[2]).t = "str")
            => At(once, pos[1], pos[2]) = FormOfString(At(raw, pos[1], pos[2]))

\* a bare-string infinitive, or a bare-string word of an infinitive, became the form
InfinitiveFormed(raw, once) ==
    HasKey(raw, k_infinitive) =>
        LET inf == raw.kv[k_infinitive]
        IN  /\ inf.t = "str" =>
                   once.kv[k_infinitive] = JDict((k_word :> FormOfString(inf)))
            /\ (HasKey(inf, k_word) /\ inf.kv[k_word].t = "str") =>
                   once.kv[k_infinitive].kv[k_word] = FormOfString(inf.kv[k_word])

\* C12: a bare string s at a known word-form position (the 6 cases of singular and
\* plural, each person of present_tense and future_simple, each past_tense form, the
\* infinitive of both aspects) is normalised to {word: s, accent: s, phonetics: ""}
C12_BareString ==
    probe.phase = "once" =>
        IF probe.kind = "noun"
        THEN StringsFormed(probe.raw.declension, probe.once.declension, DeclensionPositions)
        ELSE /\ StringsFormed(probe.raw.imperfective, probe.once.imperfective,
                              ImperfectivePositions)
             /\ StringsFormed(probe.raw.perfective, probe.once.perfective,
                              PerfectivePositions)
             /\ InfinitiveFormed(probe.raw.imperfective, probe.once.imperfective)
             /\ InfinitiveFormed(probe.raw.perfective, probe.once.perfective)

\* C12 witness: a noun row with the bare string "dom" as plural genitive was normalised
C12_Witness ==
    /\ probe.phase = "once"
    /\ probe.kind = "noun"
    /\ HasLeaf(probe.raw.declension, k_plural, <<"genitive">>)
    /\ At(probe.raw.declension, k_plural, <<"genitive">>) = JStr(dom)
    /\ At(probe.once.declension, k_plural, <<"genitive">>) = FormOfString(JStr(dom))

\* the mapping `leaf` holding a word was given the keys it lacked
KeysDefaulted(leaf, normalized) ==
    HasKey(leaf, k_word) =>
        /\ HasKey(normalized, k_word) /\ normalized.kv[k_word] = leaf.kv[k_word]
        /\ HasKey(normalized, k_accent)
        /\ HasKey(normalized, k_phonetics)
        /\ ~HasKey(leaf, k_accent) => normalized.kv[k_accent] = leaf.kv[k_word]
        /\ ~HasKey(leaf, k_phonetics) => normalized.kv[k_phonetics] = JStr(<<>>)

MappingsDefaulted(raw, once, positions) ==
    \A pos \in positions :
        HasLeaf(raw, pos[1], pos[2]) =>
            KeysDefaulted(At(raw, pos[1], pos[2]), At(once, pos[1], pos[2]))

InfinitiveDefaulted(raw, once) ==
    (HasKey(raw, k_infinitive) /\ HasKey(raw.kv[k_infinitive], k_word)) =>
        KeysDefaulted(raw.kv[k_infinitive].kv[k_word], once.kv[k_infinitive].kv[k_word])

\* C13: a word-form mapping lacking accent is normalised so that accent equals its
\* word, and one lacking phonetics gets phonetics "", at every leaf of a noun
\* declension and of a verb conjugation (case forms, tense/person forms, infinitives)
C13_MissingKeys ==
    probe.phase = "once" =>
        IF probe.kind = "noun"
        THEN MappingsDefaulted(probe.raw.declension, probe.once.declension,
                               DeclensionPositions)
        ELSE /\ MappingsDefaulted(probe.raw.imperfective, probe.once.imperfective,
                                  ImperfectivePositions)
             /\ MappingsDefaulted(probe.raw.perfective, probe.once.perfective,
                                  PerfectivePositions)
             /\ InfinitiveDefaulted(probe.raw.imperfective, probe.once.imperfective)
             /\ InfinitiveDefaulted(probe.raw.perfective, probe.once.perfective)

----------------------------------------------------------------------------
(* Vocabulary of the membership properties *)

\* the ids of the rows of a table
IdsOf(table) == {table[i].id : i \in 1..Len(table)}

\* no two rows of the link table hold the same (group, entry) pair: no row is held
\* twice, and two rows with the same pair are the same row
OnePerPair(links, column) ==
    /\ \A link \in DOMAIN links : links[link] = 1
    /\ \A l1, l2 \in DOMAIN links :
           (l1.id_group = l2.id_group /\ l1[column] = l2[column]) => l1 = l2

\* C14: in every state reached by add-to-group and remove-from-group requests, for
\* nouns and for verbs, there is at most one membership link per (group, entry):
\* adding a pair that is already linked creates no second link
C14_OneLinkPerPair ==
    /\ OnePerPair(noun_group_nouns, "id_noun")
    /\ OnePerPair(verb_group_verbs, "id_verb")

\* C14 witness: a noun of a group was added to that group again, and refused
C14_Witness ==
    /\ resp = [kind |-> "add_noun_to_group", status |-> 500]
    /\ \E link \in DOMAIN noun_group_nouns : noun_group_nouns[link] = 1

\* every row of the link table references a group and an entry that exist
References(links, column, group_table, entry_table) ==
    \A link \in DOMAIN links :
        link.id_group \in IdsOf(group_table) /\ link[column] \in IdsOf(entry_table)

\* C15: after any sequence of create, link, unlink and delete requests every link
\* references a group that exists and an entry that exists: deleting a noun, a verb
\* or a group removes the links that reference it
C15_NoDanglingLink ==
    /\ References(noun_group_nouns, "id_noun", noun_groups, nouns)
    /\ References(verb_group_verbs, "id_verb", verb_groups, verbs)

\* C15 witness: a noun was deleted while another noun is still linked to a group
C15_Witness ==
    /\ resp = [kind |-> "delete_noun", status |-> 204]
    /\ Len(nouns) = 1
    /\ DOMAIN noun_group_nouns # {}

\* the caller is active and owns the group of the id, if there is one
OwnerOrNoGroup(user, group_table, group_id) ==
    /\ user.is_active
    /\ \A i \in 1..Len(group_table) :
           group_table[i].id = group_id => group_table[i].id_user = user.id

\* an add-to-group step changes the links only when group and entry exist, and
\* answers 404 without changing them when one of the two does not
AddChecked(links, group_table, entry_table, user, group_id, entry_id) ==
    /\ links' # links => (group_id \in IdsOf(group_table) /\ entry_id \in IdsOf(entry_table))
    /\ (/\ OwnerOrNoGroup(user, group_table, group_id)
        /\ (group_id \notin IdsOf(group_table) \/ entry_id \notin IdsOf(entry_table)))
           => (resp'.status = 404 /\ links' = links)

\* C16: add_noun_to_group_endpoint and add_verb_to_group_endpoint create a link only
\* when both the group and the entry exist; when the group id or the entry id has no
\* record the request of an authorized caller fails with 404 and the links are unchanged
C16_AddNeedsBoth ==
    [][\A u \in users, g \in GroupIds, id \in EntryIds :
          /\ add_noun_to_group_endpoint(u, g, id)
                 => AddChecked(noun_group_nouns, noun_groups, nouns, u, g, id)
          /\ add_verb_to_group_endpoint(u, g, id)
                 => AddChecked(verb_group_verbs, verb_groups, verbs, u, g, id)]_vars

\* C16 witness: every group id is the id of a noun group, and adding a noun to one of
\* them was answered 404: the noun id has no record
C16_Witness ==
    /\ resp = [kind |-> "add_noun_to_group", status |-> 404]
    /\ IdsOf(noun_groups) = GroupIds

----------------------------------------------------------------------------
(* Vocabulary of the record properties *)

\* the row of the id in the table
RowOf(table, id) == table[CHOOSE i \in 1..Len(table) : table[i].id = id]

\* the step is answered by the handler of the kind: each handler names itself in its
\* reply, so no other step can be a step of that handler
Answered(kind) == resp'.kind = kind

\* no table and no link table changes in the step
StoreUnchanged ==
    UNCHANGED <<nouns, verbs, users, noun_groups, verb_groups, noun_group_nouns,
                verb_group_verbs, link_student_teacher>>

\* in the step every row that stays keeps created_at and does not move updated_at back,
\* and afterwards no row was updated before it was created
StampsOrdered(table) ==
    /\ \A id \in IdsOf(table) \cap IdsOf(table') :
           /\ RowOf(table', id).created_at = RowOf(table, id).created_at
           /\ RowOf(table', id).updated_at >= RowOf(table, id).updated_at
    /\ \A id \in IdsOf(table') :
           RowOf(table', id).updated_at >= RowOf(table', id).created_at

\* after the successful update the row carries the time of the update
Stamped(table, id) ==
    resp'.status = 200 =>
        /\ RowOf(table', id).updated_at = clock
        /\ RowOf(table', id).updated_at >= RowOf(table, id).updated_at
        /\ RowOf(table', id).created_at = RowOf(table, id).created_at

\* C17: every successful update of a noun, verb, noun group or verb group sets
\* updated_at to the time of that update, never earlier than the previous updated_at,
\* and created_at keeps its creation value: updated_at >= created_at in every state
C17_UpdatedAt ==
    [][/\ StampsOrdered(nouns) /\ StampsOrdered(verbs)
       /\ StampsOrdered(noun_groups) /\ StampsOrdered(verb_groups)
       /\ Answered("update_noun") =>
              \A u \in users, id \in EntryIds, c \in NounUpdates :
                  update_noun_endpoint(u, id, c) => Stamped(nouns, id)
       /\ Answered("update_verb") =>
              \A u \in users, id \in EntryIds, c \in VerbUpdates :
                  update_verb_endpoint(u, id, c) => Stamped(verbs, id)
       /\ Answered("update_noun_group") =>
              \A u \in users, id \in GroupIds, c \in GroupUpdates :
                  update_noun_group_endpoint(u, id, c) => Stamped(noun_groups, id)
       /\ Answered("update_verb_group") =>
              \A u \in users, id \in GroupIds, c \in GroupUpdates :
                  update_verb_group_endpoint(u, id, c) => Stamped(verb_groups, id)]_vars

\* C17 witness: a noun group created at time 0 was just updated at time 2
C17_Witness ==
    /\ resp = [kind |-> "update_noun_group", status |-> 200]
    /\ clock = 2
    /\ \E i \in 1..Len(noun_groups) :
           noun_groups[i].created_at = 0 /\ noun_groups[i].updated_at = 2

\* after the successful update every field the payload set holds the payload's value
\* and every other field but updated_at holds its previous value
Merged(table, id, payload) ==
    resp'.status = 200 =>
        /\ \A field \in DOMAIN RowOf(table, id) \ {"updated_at"} :
               RowOf(table', id)[field] =
                   IF field \in DOMAIN payload THEN payload[field]
                   ELSE RowOf(table, id)[field]
        /\ \A field \in {"id", "created_at", "id_user"} \cap DOMAIN RowOf(table, id) :
               RowOf(table', id)[field] = RowOf(table, id)[field]

HeldByOther(id, verb_pair_id) ==
    \E i \in 1..Len(verbs) : verbs[i].id # id /\ verbs[i].verb_pair_id = verb_pair_id

\* C19: after any sequence of create_verb_endpoint and update_verb_endpoint requests
\* no two stored verbs share a verb_pair_id: a create whose pair id exists, and an
\* update changing the pair id to one held by another verb, are rejected with 400
\* and leave the store unchanged
C19_UniquePairId ==
    [][/\ \A i, j \in 1..Len(verbs') :
              i # j => verbs'[i].verb_pair_id # verbs'[j].verb_pair_id
       /\ \A u \in users :
              /\ \A c \in PairCreates :
                     (/\ create_verb_endpoint(u, c)
                      /\ u.is_active /\ u.id_rol \in {1, 2}
                      /\ HeldByOther(0, c.verb_pair_id))
                         => (resp'.status = 400 /\ StoreUnchanged)
              /\ \A id \in EntryIds, c \in VerbUpdates :
                     (/\ update_verb_endpoint(u, id, c)
                      /\ u.is_active /\ u.id_rol \in {1, 2}
                      /\ id \in IdsOf(verbs)
                      /\ "verb_pair_id" \in DOMAIN c
                      /\ c.verb_pair_id # RowOf(verbs, id).verb_pair_id
                      /\ HeldByOther(id, c.verb_pair_id))
                         => (resp'.status = 400 /\ StoreUnchanged)]_vars

\* the caller passes the dependency of the endpoints that change nouns and verbs
MayEdit(user) == user.is_active /\ user.id_rol \in {1, 2}

\* the step answers 404 to the caller who passed the dependency and changes no table
NotFound(passed) == StoreUnchanged /\ (passed => resp'.status = 404)

\* C20: a get, update or delete request for a noun, verb, noun group or verb group
\* whose id has no record returns 404 (to a caller authorized for the endpoint) and
\* leaves the whole store unchanged
C20_UnknownId ==
    [][/\ \A id \in EntryIds \ IdsOf(nouns) :
              /\ Answered("get_noun") => (get_noun(id) => NotFound(TRUE))
              /\ Answered("update_noun") =>
                     \A u \in users, c \in NounUpdates :
                         update_noun_endpoint(u, id, c) => NotFound(MayEdit(u))
              /\ Answered("delete_noun") =>
                     \A u \in users : delete_noun_endpoint(u, id) => NotFound(MayEdit(u))
       /\ \A id \in EntryIds \ IdsOf(verbs) :
              /\ Answered("get_verb") => (get_verb(id) => NotFound(TRUE))
              /\ Answered("update_verb") =>
                     \A u \in users, c \in VerbUpdates :
                         update_verb_endpoint(u, id, c) => NotFound(MayEdit(u))
              /\ Answered("delete_verb") =>
                     \A u \in users : delete_verb_endpoint(u, id) => NotFound(MayEdit(u))
       /\ \A id \in GroupIds \ IdsOf(noun_groups), u \in users :
              /\ Answered("get_noun_group") =>
                     (get_noun_group(u, id) => NotFound(u.is_active))
              /\ Answered("update_noun_group") =>
                     \A c \in GroupUpdates :
                         update_noun_group_endpoint(u, id, c) => NotFound(u.is_active)
              /\ Answered("delete_noun_group") =>
                     (delete_noun_group_endpoint(u, id) => NotFound(u.is_active))
       /\ \A id \in GroupIds \ IdsOf(verb_groups), u \in users :
              /\ Answered("get_verb_group") =>
                     (get_verb_group(u, id) => NotFound(u.is_active))
              /\ Answered("update_verb_group") =>
                     \A c \in GroupUpdates :
                         update_verb_group_endpoint(u, id, c) => NotFound(u.is_active)
              /\ Answered("delete_verb_group") =>
                     (delete_verb_group_endpoint(u, id) => NotFound(u.is_active))]_vars

\* C20 witness: the store holds a noun, and the delete of another noun id was
\* answered 404
C20_Witness ==
    /\ resp = [kind |-> "delete_noun", status |-> 404]
    /\ nouns # <<>>

----------------------------------------------------------------------------
(* Properties of the list requests against the store as a collaborator *)

\* the request needs the full re-fetch: the translation filter is in force and the
\* raw page window the store returned holds a matching record
RefetchNeeded(paged, q) ==
    /\ Given(q.translation_lang) /\ Given(q.translation_text)
    /\ \E k \in 1..Len(Window(paged, q.page, q.per_page)) :
           CanonicalMatch(Window(paged, q.page, q.per_page)[k].translations,
                          q.translation_lang.s, q.translation_text.s)

\* the step ends in a store error: no page and no total reach the caller
EndsInStoreError == resp'.status = 500 /\ "body" \notin DOMAIN resp'

\* C21: when the store fails during the full re-fetch of the two-pass translation
\* filter, after the count and the page fetch succeeded, the list request ends in a
\* store error and returns neither the first-pass page nor the unfiltered total
C21_RefetchFails ==
    [][/\ Answered("nouns") =>
              \A q \in StoreNounQueries, paged \in Orders(nouns), refetched \in Orders(nouns) :
                  (ListNounsStore(q, paged, refetched, "refetch") /\ RefetchNeeded(paged, q))
                      => EndsInStoreError
       /\ Answered("verbs") =>
              \A q \in StoreVerbQueries, paged \in Orders(verbs), refetched \in Orders(verbs) :
                  (ListVerbsStore(q, paged, refetched, "refetch") /\ RefetchNeeded(paged, q))
                      => EndsInStoreError]_vars

\* C21 witness: a filtered list request on a store of two nouns was answered with
\* the error the re-fetch raised
C21_Witness ==
    /\ resp.kind = "nouns"
    /\ "raised" \in DOMAIN resp
    /\ resp.raised = "refetch"
    /\ resp.status = 500
    /\ Len(nouns) = 2

\* the response the caller received before was to the same request on the same store
SameRequestAgain ==
    /\ resp.kind \in {"nouns", "verbs"}
    /\ probe.phase = "received"
    /\ probe.resp.kind = resp.kind
    /\ probe.resp.q = resp.q
    /\ probe.nouns = nouns /\ probe.verbs = verbs
    /\ resp.status = 200 /\ probe.resp.status = 200

\* C22: two identical list requests against an unchanged store return identical
\* items and an identical total, whatever order the store returns unordered rows in
C22_StableOrder ==
    SameRequestAgain =>
        /\ resp.body.items = probe.resp.body.items
        /\ resp.body.total = probe.resp.body.total

----------------------------------------------------------------------------
(* Properties of the roles *)

\* the step is refused for the lack of rights and no noun or verb changes
Refused == resp'.status = 403 /\ UNCHANGED <<nouns, verbs>>

\* the step is a write of the caller to the nouns or the verbs
WriteBy(u) ==
    \/ \E c \in SomeNounCreates : create_noun_endpoint(u, c)
    \/ \E c \in OneVerbCreate : create_verb_endpoint(u, c)
    \/ \E id \in EntryIds, c \in NounUpdates : update_noun_endpoint(u, id, c)
    \/ \E id \in EntryIds, c \in PlainVerbUpdates : update_verb_endpoint(u, id, c)
    \/ \E id \in EntryIds : delete_noun_endpoint(u, id)
    \/ \E id \in EntryIds : delete_verb_endpoint(u, id)

\* C23: a create, update or delete of a noun or verb by a caller who is inactive, a
\* student or without role is rejected with 403 and changes no noun and no verb; the
\* nouns and verbs change only in a write of an active admin or teacher; reading an
\* entry is never refused
C23_WritersOnly ==
    [][/\ resp'.kind \in {"create_noun", "create_verb", "update_noun", "update_verb",
                          "delete_noun", "delete_verb"} =>
              \A u \in users : (~MayEdit(u) /\ WriteBy(u)) => Refused
       /\ (nouns' # nouns \/ verbs' # verbs) =>
              \E u \in users : MayEdit(u) /\ WriteBy(u)
       /\ resp'.kind \in {"get_noun", "get_verb"} => resp'.status # 403]_vars

\* C23 witness: a user registered with an id_rol that names no role was refused the
\* deletion of the stored noun, after a registered teacher had created it
C23_Witness ==
    /\ resp = [kind |-> "delete_noun", status |-> 403]
    /\ nouns # <<>>
    /\ \E u \in users : u.id_rol = 4
    /\ \E u \in users : u.id_rol = 2 /\ u.is_active

\* the caller's role is admin or teacher
Staff(user) == RoleName(user.id_rol) \in {"admin", "teacher"}

\* C26: get_user returns a user's data only to a caller whose role is admin or
\* teacher; every other caller, a user without role included, is rejected with 403
C26_GetUserStaffOnly ==
    [][Answered("get_user") =>
           \A u \in users, id \in 1..(MaxUsers + 1) :
               (get_user(u, id) /\ ~Staff(u)) => resp'.status = 403]_vars

----------------------------------------------------------------------------
(* Properties of the students, their teachers and the groups *)

\* the ids of the groups of the table the user is to see in a list: the groups the
\* user owns and, for a student, the groups owned by a teacher the student is linked to
Visible(table, user) ==
    { table[k].id : k \in
        { k \in 1..Len(table) :
            \/ table[k].id_user = user.id
            \/ /\ RoleName(user.id_rol) = "student"
               /\ \E j \in 1..Len(link_student_teacher) :
                      /\ link_student_teacher[j].id_student = user.id
                      /\ link_student_teacher[j].id_teacher = table[k].id_user } }

\* the group ids of the list returned in the step
Returned == {resp'.body[k] : k \in 1..Len(resp'.body)}

\* C24: list_noun_groups and list_verb_groups return to a student the student's own
\* groups and every group owned by a teacher linked to the student, and to any other
\* caller exactly the caller's own groups
C24_TeacherGroups ==
    [][/\ Answered("list_noun_groups") =>
              \A u \in users :
                  (list_noun_groups(u) /\ resp'.status = 200)
                      => Returned = Visible(noun_groups, u)
       /\ Answered("list_verb_groups") =>
              \A u \in users :
                  (list_verb_groups(u) /\ resp'.status = 200)
                      => Returned = Visible(verb_groups, u)]_vars


\* the caller passes the role check of the student routes
IsTeacher(user) == user.is_active /\ RoleName(user.id_rol) = "teacher"

\* the step answers with the status and leaves the links as they are
Fails(status) == resp'.status = status /\ UNCHANGED link_student_teacher

\* the users row of the id is a student
IsStudent(id) == \E u \in users : u.id = id /\ u.id_rol = 3

\* C27: requests being served one after the other, there is at most one link row per
\* (student, teacher) pair; a link is created only by a teacher for a user whose
\* id_rol is 3; a link_student request fails with 403 for a caller who is no teacher,
\* 404 for a missing user, 400 for a user who is no student, 400 for a pair already
\* linked, an unlink_student request for a pair without link fails with 404, and a
\* failing request leaves the link table unchanged
C27_LinksOfTeachers ==
    [][/\ \A i, j \in 1..Len(link_student_teacher') :
              (/\ link_student_teacher'[i].id_student = link_student_teacher'[j].id_student
               /\ link_student_teacher'[i].id_teacher = link_student_teacher'[j].id_teacher)
                  => i = j
       /\ Answered("link_student") =>
              \A u \in users, id \in 1..MaxUsers :
                  link_student(u, id) =>
                      /\ link_student_teacher' # link_student_teacher =>
                             (IsTeacher(u) /\ IsStudent(id) /\ resp'.status = 201)
                      /\ ~IsTeacher(u) => Fails(403)
                      /\ (IsTeacher(u) /\ \A v \in users : v.id # id) => Fails(404)
                      /\ (IsTeacher(u) /\ \E v \in users : v.id = id /\ v.id_rol # 3)
                             => Fails(400)
                      /\ (IsTeacher(u) /\ IsStudent(id) /\ get_link(id, u.id) # {})
                             => Fails(400)
       /\ Answered("unlink_student") =>
              \A u \in users, id \in 1..MaxUsers :
                  unlink_student(u, id) =>
                      /\ ~IsTeacher(u) => Fails(403)
                      /\ (IsTeacher(u) /\ get_link(id, u.id) = {}) => Fails(404)]_vars

\* C27 witness: a teacher who had linked a student asked for the same link again and
\* was answered 400, the one link row staying
C27_Witness ==
    /\ resp = [kind |-> "link_student", status |-> 400]
    /\ Len(link_student_teacher) = 1
    /\ \A u \in users : u.id_rol = 3 => get_link(u.id, 4) # {}


\* C28: under every interleaving of concurrent link_student requests, at most one
\* link row exists for a (student, teacher) pair
C28_NoDoubleLink ==
    \A i, j \in 1..Len(link_student_teacher) :
        (/\ link_student_teacher[i].id_student = link_student_teacher[j].id_student
         /\ link_student_teacher[i].id_teacher = link_student_teacher[j].id_teacher)
            => i = j


----------------------------------------------------------------------------
(* Properties of the ownership of groups *)

\* the group of the id exists and the user is not its owner
NotOwner(table, group_id, user) ==
    \E k \in 1..Len(table) : table[k].id = group_id /\ table[k].id_user # user.id

\* the step answers 403 and changes no group and no membership link
Forbidden == resp'.status = 403 /\ UNCHANGED groups

\* every group row has one owner, who is a user, and no two rows share a group id
OneOwner(table) ==
    /\ \A k \in 1..Len(table) : \E u \in users : u.id = table[k].id_user
    /\ \A i, j \in 1..Len(table) : table[i].id = table[j].id => i = j

\* the groups of the table that outlive the step keep their owner
OwnerKept(before, after) ==
    \A i \in 1..Len(before), j \in 1..Len(after) :
        before[i].id = after[j].id => before[i].id_user = after[j].id_user

\* C25: an update, delete, add-member or remove-member request on a noun or verb
\* group by a user other than its owner, whatever the user's role, is answered 403
\* and changes no group and no link; each group has exactly one owner, and the
\* owner of a group is the same after every step
C25_OwnerOnly ==
    [][/\ Answered("update_noun_group") =>
              \A u \in users, g \in GroupIds, c \in GroupUpdates :
                  (NotOwner(noun_groups, g, u) /\ update_noun_group_endpoint(u, g, c))
                      => Forbidden
       /\ Answered("update_verb_group") =>
              \A u \in users, g \in GroupIds, c \in GroupUpdates :
                  (NotOwner(verb_groups, g, u) /\ update_verb_group_endpoint(u, g, c))
                      => Forbidden
       /\ Answered("delete_noun_group") =>
              \A u \in users, g \in GroupIds :
                  (NotOwner(noun_groups, g, u) /\ delete_noun_group_endpoint(u, g))
                      => Forbidden
       /\ Answered("delete_verb_group") =>
              \A u \in users, g \in GroupIds :
                  (NotOwner(verb_groups, g, u) /\ delete_verb_group_endpoint(u, g))
                      => Forbidden
       /\ Answered("add_noun_to_group") =>
              \A u \in users, g \in GroupIds, id \in EntryIds :
                  (NotOwner(noun_groups, g, u) /\ add_noun_to_group_endpoint(u, g, id))
                      => Forbidden
       /\ Answered("add_verb_to_group") =>
              \A u \in users, g \in GroupIds, id \in EntryIds :
                  (NotOwner(verb_groups, g, u) /\ add_verb_to_group_endpoint(u, g, id))
                      => Forbidden
       /\ Answered("remove_noun_from_group") =>
              \A u \in users, g \in GroupIds, id \in EntryIds :
                  (NotOwner(noun_groups, g, u)
                       /\ remove_noun_from_group_endpoint(u, g, id)) => Forbidden
       /\ Answered("remove_verb_from_group") =>
              \A u \in users, g \in GroupIds, id \in EntryIds :
                  (NotOwner(verb_groups, g, u)
                       /\ remove_verb_from_group_endpoint(u, g, id)) => Forbidden
       /\ OneOwner(noun_groups') /\ OneOwner(verb_groups')
       /\ OwnerKept(noun_groups, noun_groups') /\ OwnerKept(verb_groups, verb_groups')]_vars

\* C25 witness: the admin was refused the update of a verb group that the student owns
\* and that holds a member
C25_Witness ==
    /\ resp = [kind |-> "update_verb_group", status |-> 403]
    /\ \E k \in 1..Len(verb_groups) : verb_groups[k].id_user = 2
    /\ \A k \in 1..Len(verb_groups) : verb_groups[k].id_user # 1
    /\ verb_group_verbs # EmptyBag


----------------------------------------------------------------------------
(* Properties of the translation filter as a pair *)

\* the request sets one of translation_lang and translation_text without the other,
\* or sets one of them to the empty string
OneSided(q) ==
    /\ <<q.translation_lang, q.translation_text>> # <<JNone, JNone>>
    /\ ~(Given(q.translation_lang) /\ Given(q.translation_text))

\* the request with neither translation parameter set
Bare(q) == [q EXCEPT !.translation_lang = JNone, !.translation_text = JNone]

\* the answer to the bare request on the rows the store gave for the page statement
BareAnswer(kind, q, paged) ==
    Listing(kind, Bare(q),
            FetchAndFilter(paged, paged, "none", q.page, q.per_page, JNone, JNone))

\* the step answers with the items and the total of the bare request
AsBare(kind, q, paged) ==
    /\ resp'.status = 200
    /\ resp'.body.items = BareAnswer(kind, q, paged).body.items
    /\ resp'.body.total = BareAnswer(kind, q, paged).body.total

\* C29: a list request that sets only one of translation_lang and translation_text,
\* or sets one to the empty string, returns the items and the total of the same
\* request with neither set, and runs no full re-fetch: a store whose re-fetch would
\* fail answers it all the same
C29_BothOrNone ==
    [][/\ Answered("nouns") =>
              \A q \in PairNounQueries, paged \in Orders(nouns), refetched \in Orders(nouns) :
                  \A failure \in {"none", "refetch"} :
                      (OneSided(q) /\ ListNounsStore(q, paged, refetched, failure))
                          => AsBare("nouns", q, paged)
       /\ Answered("verbs") =>
              \A q \in PairVerbQueries, paged \in Orders(verbs), refetched \in Orders(verbs) :
                  \A failure \in {"none", "refetch"} :
                      (OneSided(q) /\ ListVerbsStore(q, paged, refetched, failure))
                          => AsBare("verbs", q, paged)]_vars

\* C29 witness: a request with translation_text = AM and no translation_lang was
\* answered with a noun none of whose words under es contains AM, all nouns counted
C29_Witness ==
    /\ resp.kind = "nouns" /\ resp.status = 200
    /\ resp.q.translation_lang = JNone /\ resp.q.translation_text = JStr(<<"A", "M">>)
    /\ Len(nouns) = 2
    /\ resp.body.total = 2
    /\ \E k \in 1..Len(resp.body.items) :
           ~CanonicalMatch(resp.body.items[k].translations, es, <<"A", "M">>)


----------------------------------------------------------------------------
(* Properties of every page *)

\* the ids of the stored rows that satisfy every predicate of the request
FullIds == {Table[i].id : i \in FullAt}

\* C30: for every store and every request with page >= 1 and per_page in 1..100, a
\* page holds at most per_page items, every item is a stored record that satisfies
\* the pushable predicates and, when it is active, the translation predicate, no
\* item appears twice, and with the translation filter active total is 0 or the size
\* of the full filtered set
C30_PageSound ==
    Listed =>
        /\ Len(resp.body.items) <= resp.q.per_page
        /\ \A k \in 1..Len(resp.body.items) : resp.body.items[k].id \in FullIds
        /\ \A i, j \in 1..Len(resp.body.items) :
               resp.body.items[i].id = resp.body.items[j].id => i = j
        /\ FilterActive => resp.body.total \in {0, Len(Full)}

\* C30 witness: a full page of a request with a pushable predicate and the
\* translation filter, from a store that holds records failing the one and records
\* failing the other
C30_Witness ==
    /\ Listed /\ FilterActive
    /\ resp.kind = "nouns" /\ Given(resp.q.gender)
    /\ Len(resp.body.items) = resp.q.per_page
    /\ resp.body.total = Len(Full)
    /\ \E i \in 1..Len(Table) : ~Pushable(Table[i])
    /\ \E i \in PushedAt : ~Translated(Table[i])

====
